---- MODULE Spec2Model ----
(***************************************************************************)
(* Model of scripts/register_workflow.py: main() and the four per-platform *)
(* deploy routines (deploy_to_aws, deploy_to_github, deploy_to_ow,         *)
(* deploy_to_gcp) as one sequential process.  Every platform call is a     *)
(* step whose answer is chosen nondeterministically from the answers the   *)
(* platform can give.  create_secret_payload, deploy_to_aws and            *)
(* FaaSrPayloadAdapter._setup_credentials of scripts/migration_adapter.py  *)
(* also run on their own, over more workflow files and environments.       *)
(***************************************************************************)
EXTENDS Integers, Sequences, FiniteSets, TLC

VARIABLES
    ActionList,           \* the keys of workflow_data['ActionList'], in insertion order
    ComputeServers,       \* workflow_data['ComputeServers']: FaaSType per server, in insertion order
    server_config,        \* workflow_data['ComputeServers'][key]: the credential fields per server
    store_config,         \* workflow_data['DataStores'][key]: the credential fields per data store
    action_data,          \* workflow_data['ActionList'][name]: MaxMemory, MaxRuntime ({} if not given)
    server_limits,        \* MaxMemory, MaxRuntime of workflow_data['ComputeServers'][key]
    sent,                 \* arguments of the last create_function / update_function_configuration
    clampWarned,          \* limits of the current Lambda action a clamp warning was printed for
    env,                  \* names of the environment variables that are set (non-empty)
    pc,                   \* position of the process in main() / deploy_to_*()
    exitCode,             \* -1 while running, then the process exit status
    cause,                \* why sys.exit(1) was called ("" if it was not)
    validate_json_result, \* what validate_json() answered: "none", "true", "false", "raise"
    faas_types,           \* members of main()'s set faas_types not yet iterated
    faas_type,            \* main()'s loop variable
    queue,                \* actions of the current platform group still to process
    attempt,              \* deploy_to_aws local `attempt`
    polls,                \* status polls issued in the wait phase of the current action
    lastPoll,             \* answer of the last status poll since the last call that changed the function
    pollLog,              \* the answers of these polls in order, while there are at most MaxLog of them
    region,               \* region_name of the client / location of function_path in use
    probe,                \* answer of the existence probe of the current action
    issued,               \* calls issued for the current action since its probe
    nprobes,              \* per action: number of existence probes issued in the run
    result,               \* per action: "none", "deployed"
    failed,               \* action whose reconciliation made the run exit (0 if none)
    called,               \* platforms that have received at least one call
    secretSet,            \* repo.create_secret(SECRET_PAYLOAD) succeeded
    payload,              \* credentials part of the last create_secret_payload() result
    keyFile,              \* the temporary GCP key file exists on disk
    warned,               \* FaaSTypes for which main() printed the Unknown warning
    args,                 \* the command line of sync_secrets / deploy_terraform / migration_adapter
    world,                \* what these scripts find outside the process: files, masked values
    success,              \* the local `success` of sync_to_aws, sync_to_gcp, deploy_terraform.main
    overall_success,      \* sync_secrets.main's overall_success
    synced,               \* per provider and secret: probe answer, calls issued, outcome
    ran,                  \* the terraform command lines run so far, in order
    data,                 \* FaaSrPayloadAdapter.data (top-level keys of the workflow)
    overwritten,          \* FaaSrPayloadAdapter.overwritten
    triggered             \* the names scheduler.trigger_func was called with

\* the state of the three other scripts
scriptv == <<args, world, success, overall_success, synced, ran, data, overwritten, triggered>>

vars == <<scriptv, ActionList, ComputeServers, server_config, store_config, action_data, server_limits, sent,
          clampWarned, env, pc, exitCode, cause, validate_json_result, faas_types,
          faas_type, queue, attempt, polls, lastPoll, pollLog, region, probe, issued, nprobes, result,
          failed, called, secretSet, payload, keyFile, warned>>

----------------------------------------------------------------------------
(* Bounds of the model *)

MaxServers == 2
MaxUnset == 1
MaxLog == 3

(* Program constants *)

max_attempts == 60

----------------------------------------------------------------------------
(* Inputs *)

\* FaaSType spellings a workflow file may carry ("Slurm" is not handled by main()).
TypeStrings == {"Lambda", "GitHubActions", "OpenWhisk", "GoogleCloud", "gcp", "Slurm"}

\* str.lower() on the spellings above
Lower(s) ==
    CASE s = "Lambda" -> "lambda"
      [] s = "gcp" -> "gcp"
      [] s = "GitHubActions" -> "githubactions"
      [] s = "OpenWhisk" -> "openwhisk"
      [] s = "GoogleCloud" -> "googlecloud"
      [] s = "Slurm" -> "slurm"
      [] OTHER -> s

\* the environment variables the control flow of the deploy routines depends on
FlowVars == {"GH_PAT", "GITHUB_REPOSITORY", "AWS_ACCESSKEY", "AWS_SECRETKEY", "AWS_ARN",
             "GCP_SECRETKEY"}
\* the environment variables that only fill the credentials table
TableVars == {"MINIO_ACCESSKEY", "MINIO_SECRETKEY", "OW_APIKEY", "SLURM_TOKEN"}
EnvVars == FlowVars \cup TableVars
\* the environment variables create_secret_payload reads
PayloadVars == EnvVars \ {"GITHUB_REPOSITORY", "AWS_ARN"}

\* ActionList: one action per compute server, named by its position
Actions == 1..Len(ComputeServers)

\* action_data['FaaSServer']
FaaSServer(a) == a

\* action names a workflow file may carry
ActionNames == <<"compute-sum", "plot", "Compute_Sum", "Plot">>

\* str.replace('_', '-') on the names above
Hyphenated(n) == IF n = "Compute_Sum" THEN "Compute-Sum" ELSE n

\* str.lower() on the names above and on what Hyphenated makes of them
LowerName(n) ==
    CASE n = "Compute-Sum" -> "compute-sum"
      [] n = "Compute_Sum" -> "compute_sum"
      [] n = "Plot" -> "plot"
      [] OTHER -> n

\* workflow_data['ComputeServers'][action_data['FaaSServer']]['FaaSType'].lower()
ActionType(a) == Lower(ComputeServers[FaaSServer(a)])

----------------------------------------------------------------------------
(* The router: the membership tests of main() and of the four filters *)

GcpTypesAndLambda == {"cloudfunctions", "cloud_functions", "gcp", "gcf", "googlecloud", "lambda"}
LambdaTypes == {"lambda", "aws_lambda", "aws"}
GithubTypes == {"githubactions", "github_actions", "github"}
OwTypes == {"openwhisk", "open_whisk", "ow"}
GcpTypes == {"cloudfunctions", "cloud_functions", "gcp", "gcf", "googlecloud"}

IsLambdaType(t) == t \in LambdaTypes
IsGithubType(t) == t \in GithubTypes
IsOwType(t) == t \in OwTypes
IsGcpType(t) == t \in GcpTypes
Recognized(t) == IsLambdaType(t) \/ IsGithubType(t) \/ IsOwType(t) \/ IsGcpType(t)

\* The actions of a group, in insertion order of ActionList
RECURSIVE Filter(_, _, _)
Filter(T, a, n) ==
    IF a > n THEN <<>>
    ELSE (IF ActionType(a) \in T THEN <<a>> ELSE <<>>) \o Filter(T, a + 1, n)

AllActionsSeq == [a \in Actions |-> a]
lambda_actions == Filter(LambdaTypes, 1, Len(ComputeServers))
github_actions == Filter(GithubTypes, 1, Len(ComputeServers))
ow_actions == Filter(OwTypes, 1, Len(ComputeServers))
gcp_actions == Filter(GcpTypes, 1, Len(ComputeServers))

Range(s) == {s[i] : i \in DOMAIN s}

\* the part of the platform identifier that differs between the actions of a run:
\* f"{json_prefix}-{action_name}", on Cloud Functions .replace('_', '-').lower()
prefixed_func_name(a) ==
    IF IsGcpType(ActionType(a)) THEN LowerName(Hyphenated(ActionList[a])) ELSE ActionList[a]

----------------------------------------------------------------------------
(* Environment and create_secret_payload *)

\* os.getenv(v): the value of a set variable is denoted by its name, None by "None"
Getenv(v) == IF v \in env THEN v ELSE "None"
\* os.getenv(v, '')
GetenvDefault(v) == IF v \in env THEN v ELSE ""

Slots == {"My_GitHub_Account_TOKEN", "My_Minio_Bucket_ACCESS_KEY", "My_Minio_Bucket_SECRET_KEY",
          "My_OW_Account_API_KEY", "My_Lambda_Account_ACCESS_KEY", "My_Lambda_Account_SECRET_KEY",
          "My_GCP_Account_SERVICE_ACCOUNT_KEY", "My_SLURM_Account_TOKEN"}

\* the environment variable a slot of the credentials table is read from
SlotVar(s) ==
    CASE s = "My_GitHub_Account_TOKEN" -> "GH_PAT"
      [] s = "My_Minio_Bucket_ACCESS_KEY" -> "MINIO_ACCESSKEY"
      [] s = "My_Minio_Bucket_SECRET_KEY" -> "MINIO_SECRETKEY"
      [] s = "My_OW_Account_API_KEY" -> "OW_APIKEY"
      [] s = "My_Lambda_Account_ACCESS_KEY" -> "AWS_ACCESSKEY"
      [] s = "My_Lambda_Account_SECRET_KEY" -> "AWS_SECRETKEY"
      [] s = "My_GCP_Account_SERVICE_ACCOUNT_KEY" -> "GCP_SECRETKEY"
      [] OTHER -> "SLURM_TOKEN"

\* A field value of the workflow file is a triple: the f-string f"{key}{suffix}",
\* another string, or the mark of a field the dict does not have.
Absent == <<"absent", "", "">>
Str(x) == <<"str", "", x>>

Fields == {"AccessKey", "SecretKey", "Token", "API.key", "Namespace"}
StoreFields == {"AccessKey", "SecretKey"}

\* the suffix of the placeholder of a field
Suffix(f) ==
    CASE f = "AccessKey" -> "_ACCESS_KEY"
      [] f = "SecretKey" -> "_SECRET_KEY"
      [] f = "Token" -> "_TOKEN"
      [] f = "API.key" -> "_API_KEY"
      [] OTHER -> "_PROJECT_ID"

\* f"{server_key}_ACCESS_KEY" and the like
Placeholder(k, f) == <<"fstring", k, Suffix(f)>>

\* the key of a server in workflow_data['ComputeServers']
ServerKey(i) == <<"srv1", "srv2", "srv3", "srv4">>[i]

StoreKeys == {"My_Minio_Bucket", "My_S3_Bucket"}

\* how a workflow file fills the credential fields of one server or store: with
\* their placeholders, with the user's own values, with the placeholders but
\* "GCP_SECRET_KEY" as SecretKey, or not at all
Modes == {"placeholder", "literal", "named", "absent"}

FieldValue(k, f, m) ==
    CASE m = "placeholder" -> Placeholder(k, f)
      [] m = "literal" -> Str("user")
      [] m = "named" -> IF f = "SecretKey" THEN Str("GCP_SECRET_KEY") ELSE Placeholder(k, f)
      [] OTHER -> Absent

\* "GCP_SECRET_KEY" is a SecretKey of Cloud Functions servers only
StoreModes == Modes \ {"named"}
ServerModes ==
    {m \in [Actions -> Modes] : \A i \in Actions : m[i] = "named" => IsGcpType(ActionType(i))}

ConfigOf(i, m) == [f \in Fields |-> FieldValue(ServerKey(i), f, m)]
StoreOf(k, m) == [f \in StoreFields |-> FieldValue(k, f, m)]

\* server_config.get('Region', ...): the servers of the workflow name different regions
Regions == <<"us-east-1", "eu-west-1", "ap-south-1", "sa-east-1">>
Region(i) == Regions[i]

\* deploy_to_aws: the Region of the first server of a Lambda type, else 'us-east-1'
aws_region ==
    LET aws == {i \in DOMAIN ComputeServers : IsLambdaType(Lower(ComputeServers[i]))}
    IN  IF aws = {} THEN "us-east-1"
        ELSE Region(CHOOSE i \in aws : \A j \in aws : i <= j)

\* deploy_to_gcp: assigned in the filter loop for every Cloud Functions action, so the
\* Region of the server of the last one, else 'us-central1'
gcp_region ==
    IF gcp_actions = <<>> THEN "us-central1"
    ELSE Region(FaaSServer(gcp_actions[Len(gcp_actions)]))

\* gcp_project_id: the Namespace of the first server of a Cloud Functions type
gcp_project_id ==
    LET gcp == {i \in DOMAIN ComputeServers : IsGcpType(Lower(ComputeServers[i]))}
    IN  IF gcp = {} THEN Str("")
        ELSE LET first == CHOOSE i \in gcp : \A j \in gcp : i <= j
             IN  IF server_config[first]["Namespace"] = Absent THEN Str("")
                 ELSE server_config[first]["Namespace"]

\* get_gcp_credentials_from_workflow: the server of the first Cloud Functions type
gcp_server_config ==
    LET gcp == {i \in DOMAIN ComputeServers : IsGcpType(Lower(ComputeServers[i]))}
    IN  server_config[CHOOSE i \in gcp : \A j \in gcp : i <= j]

\* service_account_key: GCP_SECRETKEY if the SecretKey field is "GCP_SECRET_KEY",
\* else the field itself
service_account_key ==
    IF gcp_server_config["SecretKey"] = Str("GCP_SECRET_KEY")
    THEN Str(Getenv("GCP_SECRETKEY"))
    ELSE gcp_server_config["SecretKey"]

\* the credentials dict of create_secret_payload
credentials ==
    [s \in Slots \cup {"My_GCP_Account_PROJECT_ID"} |->
        CASE s = "My_GitHub_Account_TOKEN" -> Getenv("GH_PAT")
          [] s = "My_Minio_Bucket_ACCESS_KEY" -> Getenv("MINIO_ACCESSKEY")
          [] s = "My_Minio_Bucket_SECRET_KEY" -> Getenv("MINIO_SECRETKEY")
          [] s = "My_GCP_Account_PROJECT_ID" -> gcp_project_id
          [] OTHER -> GetenvDefault(SlotVar(s))]

\* a slot of the credentials table as a field value
Cred(s) == IF s = "My_GCP_Account_PROJECT_ID" THEN credentials[s] ELSE Str(credentials[s])

\* `if credentials[...]:` -- None and '' are false
Truthy(c) == c \notin {Str(""), Str("None"), Absent}

\* `if field == placeholder: if credential: field = credential`, with an else
\* branch that blanks the field
SubstituteOrClear(v, phs, c) ==
    IF v \in phs /\ Truthy(c) THEN c ELSE IF v = Absent THEN Absent ELSE Str("")
\* `if 'X' in config and config['X'] == placeholder: if credential: config['X'] = credential`
Substitute(v, phs, c) == IF v \in phs /\ Truthy(c) THEN c ELSE v

\* the replacement of the placeholders of one server; faas_type is compared as written
ResolveServer(i) ==
    LET t == ComputeServers[i]
        c == server_config[i]
        k == ServerKey(i)
    IN  CASE t = "Lambda" ->
                [c EXCEPT !["AccessKey"] = Substitute(@, {Placeholder(k, "AccessKey")},
                                                      Cred("My_Lambda_Account_ACCESS_KEY")),
                          !["SecretKey"] = Substitute(@, {Placeholder(k, "SecretKey")},
                                                      Cred("My_Lambda_Account_SECRET_KEY"))]
          [] t = "GitHubActions" ->
                [c EXCEPT !["Token"] = Substitute(@, {Placeholder(k, "Token")},
                                                  Cred("My_GitHub_Account_TOKEN"))]
          [] t = "OpenWhisk" ->
                [c EXCEPT !["API.key"] = Substitute(@, {Placeholder(k, "API.key")},
                                                    Cred("My_OW_Account_API_KEY"))]
          [] t \in {"CloudFunctions", "GoogleCloud"} ->
                [c EXCEPT !["Namespace"] = Substitute(@, {Placeholder(k, "Namespace")},
                                                      Cred("My_GCP_Account_PROJECT_ID")),
                          !["SecretKey"] = Substitute(@, {Placeholder(k, "SecretKey"),
                                                          Str("GCP_SECRET_KEY")},
                                                      Cred("My_GCP_Account_SERVICE_ACCOUNT_KEY"))]
          [] OTHER -> c

\* the replacement of the placeholders of one data store
ResolveStore(k) ==
    IF k = "My_Minio_Bucket"
    THEN [store_config[k] EXCEPT
              !["AccessKey"] = Substitute(@, {Placeholder(k, "AccessKey")},
                                          Cred("My_Minio_Bucket_ACCESS_KEY")),
              !["SecretKey"] = Substitute(@, {Placeholder(k, "SecretKey")},
                                          Cred("My_Minio_Bucket_SECRET_KEY"))]
    ELSE store_config[k]

\* payload['ComputeServers'] and payload['DataStores'] after the two loops; the
\* dicts are those of workflow_data (dict.copy() is shallow)
ResolvedServers == [i \in DOMAIN server_config |-> ResolveServer(i)]
ResolvedStores == [k \in DOMAIN store_config |-> ResolveStore(k)]

\* json.loads(json.dumps(v)) of a value of the credentials table: None <-> null
JsonDumps(v) == IF v = "None" THEN "null" ELSE v
JsonLoads(v) == IF v = "null" THEN "None" ELSE v

\* payload = credentials.copy(); payload.update(workflow_copy): the top-level
\* keys of the workflow win over those of the table
Update(table, top) == [s \in DOMAIN table |-> IF s \in DOMAIN top THEN top[s] ELSE table[s]]

\* get_github_token() exits when GH_PAT is not set
GithubTokenMissing == "GH_PAT" \notin env
\* get_aws_credentials() exits unless all three are set
AwsCredentialsMissing == ~({"AWS_ACCESSKEY", "AWS_SECRETKEY", "AWS_ARN"} \subseteq env)

NoPayload ==
    [s \in Slots \cup {"My_GCP_Account_PROJECT_ID"} |->
        IF s = "My_GCP_Account_PROJECT_ID" THEN Absent ELSE "unset"]

----------------------------------------------------------------------------
(* MaxMemory and MaxRuntime of a Lambda action *)

\* values a workflow file may give
MemoryRequests == {50, 128, 2048, 10240, 20000}
RuntimeRequests == {0, 1, 60, 301, 900, 1000}
ServerMemoryRequests == {512}
ServerRuntimeRequests == {120}

\* an optional number is the empty set (None) or a singleton
Optional(S) == {{}} \cup {{v} : v \in S}
The(x) == CHOOSE v \in x : TRUE

\* server level, then action level, then the default
max_memory_mbServerFirst(a) ==
    IF server_limits[FaaSServer(a)].MaxMemory # {} THEN The(server_limits[FaaSServer(a)].MaxMemory)
    ELSE IF action_data[a].MaxMemory # {} THEN The(action_data[a].MaxMemory)
    ELSE 1024
\* action level, then server level, then the default
max_memory_mb(a) ==
    IF action_data[a].MaxMemory # {} THEN The(action_data[a].MaxMemory)
    ELSE IF server_limits[FaaSServer(a)].MaxMemory # {} THEN The(server_limits[FaaSServer(a)].MaxMemory)
    ELSE 1024
max_runtime_seconds(a) ==
    IF action_data[a].MaxRuntime # {} THEN The(action_data[a].MaxRuntime)
    ELSE IF server_limits[FaaSServer(a)].MaxRuntime # {} THEN The(server_limits[FaaSServer(a)].MaxRuntime)
    ELSE 900

\* `if v < lo: v = lo elif v > hi: v = hi`, without the first branch
ClampNoFloor(v, lo, hi) == IF v > hi THEN hi ELSE v
\* `if v < lo: v = lo elif v > hi: v = hi`
Clamp(v, lo, hi) == IF v < lo THEN lo ELSE IF v > hi THEN hi ELSE v

lambda_memory_mb(a) == Clamp(max_memory_mb(a), 128, 10240)
lambda_timeout_seconds(a) == Clamp(max_runtime_seconds(a), 1, 900)

\* the limits for which one of the four warnings is printed
ClampWarnings(a) ==
    (IF max_memory_mb(a) < 128 \/ max_memory_mb(a) > 10240 THEN {"MaxMemory"} ELSE {})
    \cup (IF max_runtime_seconds(a) < 1 \/ max_runtime_seconds(a) > 900 THEN {"MaxRuntime"} ELSE {})

Min(x, y) == IF x < y THEN x ELSE y
Max(x, y) == IF x > y THEN x ELSE y

\* the last call that carried limits: FunctionName (as the action it names), MemorySize, Timeout
NoCall == [op |-> "none", action |-> 0, MemorySize |-> 0, Timeout |-> 0]
CreateCallFixed(a) == [op |-> "create", action |-> a, MemorySize |-> 256, Timeout |-> 300]
\* create_function(..., Timeout=min(300, ...), MemorySize=max(128, ...))
CreateCall(a) ==
    [op |-> "create", action |-> a, MemorySize |-> Max(128, lambda_memory_mb(a)),
     Timeout |-> Min(300, lambda_timeout_seconds(a))]
\* update_function_configuration(..., MemorySize=..., Timeout=...)
ConfigCall(a) ==
    [op |-> "config", action |-> a, MemorySize |-> lambda_memory_mb(a),
     Timeout |-> lambda_timeout_seconds(a)]

----------------------------------------------------------------------------
(* Initial state: a workflow file and an environment *)

RECURSIVE SeqsUpTo(_, _)
SeqsUpTo(S, n) ==
    IF n = 0 THEN {<<>>}
    ELSE LET shorter == SeqsUpTo(S, n - 1)
         IN  shorter \cup {Append(s, x) : s \in {t \in shorter : Len(t) = n - 1}, x \in S}

\* a run of register_workflow.py: the other scripts are not running
NoArgs == [script |-> "register_workflow"]
ScriptsIdle ==
    /\ args = NoArgs
    /\ world = <<>>
    /\ success = FALSE
    /\ overall_success = FALSE
    /\ synced = <<>>
    /\ ran = <<>>
    /\ data = <<>>
    /\ overwritten = <<>>
    /\ triggered = <<>>

\* the deploy routines before their first step
StartDeploy ==
    /\ exitCode = -1
    /\ cause = ""
    /\ sent = NoCall
    /\ clampWarned = {}
    /\ queue = <<>>
    /\ attempt = 0
    /\ polls = 0
    /\ lastPoll = "none"
    /\ pollLog = <<>>
    /\ region = ""
    /\ probe = "none"
    /\ issued = {}
    /\ nprobes = [a \in Actions |-> 0]
    /\ result = [a \in Actions |-> "none"]
    /\ failed = 0
    /\ called = {}
    /\ secretSet = FALSE
    /\ payload = NoPayload
    /\ keyFile = FALSE
    /\ warned = {}
    /\ ScriptsIdle

\* the state of the process before its first step
Start ==
    /\ validate_json_result = "none"
    /\ faas_types = {}
    /\ faas_type = ""
    /\ StartDeploy

\* the actions are named in the order of ActionNames
DefaultNames == ActionList = [a \in Actions |-> ActionNames[a]]

\* a workflow file that gives no MaxMemory and no MaxRuntime
NoLimits ==
    /\ action_data = [a \in Actions |-> [MaxMemory |-> {}, MaxRuntime |-> {}]]
    /\ server_limits = [i \in Actions |-> [MaxMemory |-> {}, MaxRuntime |-> {}]]

\* a run of main(): up to MaxUnset of the variables the flow reads are not set
Init ==
    /\ ComputeServers \in SeqsUpTo(TypeStrings, MaxServers)
    /\ server_config = [i \in Actions |->
            ConfigOf(i, IF IsGcpType(ActionType(i)) THEN "named" ELSE "placeholder")]
    /\ store_config = [k \in {"My_Minio_Bucket"} |-> StoreOf(k, "placeholder")]
    /\ env \in {EnvVars \ u : u \in {v \in SUBSET FlowVars : Cardinality(v) <= MaxUnset}}
    /\ NoLimits
    /\ DefaultNames
    /\ pc = "read"
    /\ Start

\* a call of create_secret_payload() in any environment
InitPayload ==
    /\ ComputeServers \in SeqsUpTo(TypeStrings \ {"Slurm"}, MaxServers)
    /\ server_config \in {[i \in Actions |-> ConfigOf(i, m[i])] : m \in ServerModes}
    /\ store_config \in {[k \in {key} |-> StoreOf(k, m)] : key \in StoreKeys, m \in StoreModes}
    /\ env \in {EnvVars \ u : u \in {v \in SUBSET PayloadVars : Cardinality(v) <= MaxUnset}}
    /\ NoLimits
    /\ DefaultNames
    /\ pc = "payload"
    /\ Start

----------------------------------------------------------------------------
(* Control helpers *)

inputs == <<ActionList, ComputeServers, env, action_data, server_limits>>
lambdav == <<sent, clampWarned>>
cfgv == <<server_config, store_config>>
mainv == <<validate_json_result, faas_types, faas_type, warned>>
waitv == <<attempt, polls, lastPoll, pollLog>>
actv == <<probe, issued, nprobes, result>>

\* the action being reconciled
cur == Head(queue)

Goto(p) == pc' = p /\ UNCHANGED <<exitCode, cause, failed>>

\* sys.exit(1)
Exit(c, a) == pc' = "exit" /\ exitCode' = 1 /\ cause' = c /\ failed' = a

\* end of one iteration of a `for action_name, action_data in ..._actions.items()` loop
NextAction(p) ==
    /\ queue' = Tail(queue)
    /\ IF Tail(queue) = <<>> THEN Goto("dispatch") ELSE Goto(p)

\* a call that changes the function was issued: no status poll has been made since
\* (`attempt` is assigned before it is read again)
WaitOver == attempt' = 0 /\ polls' = 0 /\ lastPoll' = "none" /\ pollLog' = <<>>

\* a new existence probe of the current action starts a new reconciliation of it
Probed(r) ==
    /\ probe' = r
    /\ issued' = {}
    /\ nprobes' = [nprobes EXCEPT ![cur] = @ + 1]

Issue(op) == issued' = issued \cup {op}

Deployed == result' = [result EXCEPT ![cur] = "deployed"]

\* the effect of create_secret_payload(workflow_data) once the token is there: the
\* returned payload, and the fields of workflow_data replaced in place
SecretPayload ==
    /\ payload' = Update(credentials, <<>>)
    /\ server_config' = ResolvedServers
    /\ store_config' = ResolvedStores

----------------------------------------------------------------------------
(* main() *)

\* read_workflow_file: json.load, then `if validate_json(workflow_data): print(...)`
main_read ==
    /\ pc = "read"
    /\ \E r \in {"true", "false", "raise"} :
        /\ validate_json_result' = r
        /\ IF r = "raise" THEN Exit("validation", 0) ELSE Goto("validate")
    /\ UNCHANGED <<inputs, scriptv, region, cfgv, faas_types, faas_type, warned, queue, waitv, actv, called,
                   secretSet, lambdav, payload, keyFile>>

\* validate_workflow_with_faasr_backend: check_dag raises, or the checks pass
main_validate ==
    /\ pc = "validate"
    /\ \E r \in {"ok", "dag_raise"} :
        IF r = "ok" THEN Goto("collect") ELSE Exit("validation", 0)
    /\ UNCHANGED <<inputs, scriptv, region, cfgv, mainv, queue, waitv, actv, called, secretSet, lambdav, payload, keyFile>>

\* faas_types = {server['FaaSType'].lower()}; exit if empty
main_collect ==
    /\ pc = "collect"
    /\ faas_types' = {Lower(ComputeServers[i]) : i \in DOMAIN ComputeServers}
    /\ IF faas_types' = {} THEN Exit("no_faastype", 0) ELSE Goto("dispatch")
    /\ UNCHANGED <<inputs, scriptv, region, cfgv, validate_json_result, faas_type, warned, queue, waitv, actv,
                   called, secretSet, lambdav, payload, keyFile>>

\* the branch main() takes for one member of faas_types
Route(t) ==
    IF IsLambdaType(t) THEN "aws_start"
    ELSE IF IsGithubType(t) THEN "gh_start"
    ELSE IF IsOwType(t) THEN "ow_start"
    ELSE IF IsGcpType(t) THEN "gcp_start"
    ELSE "dispatch"

\* one iteration of `for faas_type in faas_types` (a set: any order)
main_dispatch ==
    /\ pc = "dispatch"
    /\ \E t \in faas_types :
        /\ faas_type' = t
        /\ faas_types' = faas_types \ {t}
        /\ warned' = IF Route(t) = "dispatch" THEN warned \cup {t} ELSE warned
        /\ Goto(Route(t))
    /\ UNCHANGED <<inputs, scriptv, region, cfgv, validate_json_result, queue, waitv, actv, called, secretSet, lambdav,
                   payload, keyFile>>

\* the loop is over: main() returns, exit status 0
main_done ==
    /\ pc = "dispatch"
    /\ faas_types = {}
    /\ pc' = "done"
    /\ exitCode' = 0
    /\ UNCHANGED <<inputs, scriptv, region, cfgv, mainv, cause, failed, queue, waitv, actv, called, secretSet, lambdav,
                   payload, keyFile>>

----------------------------------------------------------------------------
(* deploy_to_aws *)

\* the condition of `while attempt < max_attempts`
WaitLoopOffByOne(n) == n <= max_attempts
WaitLoopContinues(n) == n < max_attempts

\* `if state == 'Failed' ...: sys.exit(1)` inside the loop
IsFailedNever(r) == FALSE
IsFailedOrRaised(r) == r \in {"failed", "raise"}
IsFailedStatus(r) == r = "failed"

\* `if attempt >= max_attempts: ... sys.exit(1)` after the loop
TimedOutNever(n) == FALSE
TimedOut(n) == n >= max_attempts

\* credentials, client, create_secret_payload, the filter
aws_start ==
    /\ pc = "aws_start"
    /\ IF AwsCredentialsMissing
       THEN Exit("AWS_CREDS", 0) /\ UNCHANGED <<payload, cfgv, queue>>
       ELSE IF GithubTokenMissing
       THEN Exit("GH_PAT", 0) /\ UNCHANGED <<payload, cfgv, queue>>
       ELSE /\ SecretPayload
            /\ queue' = lambda_actions
            /\ IF lambda_actions = <<>> THEN Goto("dispatch") ELSE Goto("aws_probe")
    /\ region' = IF AwsCredentialsMissing THEN region ELSE aws_region
    /\ UNCHANGED <<inputs, scriptv, mainv, waitv, actv, called, secretSet, lambdav, keyFile>>

\* existing_func = lambda_client.get_function(...)
aws_probe ==
    /\ pc = "aws_probe"
    /\ called' = called \cup {"lambda"}
    /\ \E r \in {"found", "notfound", "error"} :
        /\ Probed(r)
        /\ CASE r = "found" -> Goto("aws_update_code")
             [] r = "notfound" -> Goto("aws_create")
             [] OTHER -> Exit("probe_error", cur)
    /\ clampWarned' = ClampWarnings(cur)
    /\ UNCHANGED <<inputs, scriptv, region, cfgv, mainv, queue, waitv, result, secretSet, sent, payload, keyFile>>

\* lambda_client.update_function_code(...); a ResourceNotFoundException raised here
\* is caught by the `except ResourceNotFoundException` of the probe's try block
aws_update_code ==
    /\ pc = "aws_update_code"
    /\ Issue("update")
    /\ \E r \in {"ok", "notfound", "error"} :
        CASE r = "ok" -> Goto("aws_wait_update")
          [] r = "notfound" -> Goto("aws_create")
          [] OTHER -> Exit("rejected", cur)
    /\ WaitOver
    /\ UNCHANGED <<inputs, scriptv, region, cfgv, mainv, queue, probe, nprobes, result, called, secretSet, lambdav,
                   payload, keyFile>>

\* the record of the first MaxLog answers of a wait phase
TooLong == <<"...">>
Logged(log, r) == IF log # TooLong /\ Len(log) < MaxLog THEN Append(log, r) ELSE TooLong

\* a KeyboardInterrupt raised in get_function or in time.sleep(5) is no Exception:
\* no except clause of deploy_to_aws or main() catches it and the interpreter ends
\* the process on the signal (status 128 + SIGINT)
Interrupted(a) ==
    pc' = "exit" /\ exitCode' = 130 /\ cause' = "KeyboardInterrupt" /\ failed' = a

\* one iteration of a wait loop and, when the loop ends, the check after it;
\* ok is the answer that breaks the loop, p the position after the wait
WaitStep(ok, p) ==
    /\ WaitLoopContinues(attempt)
    /\ polls' = polls + 1
    /\ \E r \in {ok, "failed", "pending", "raise", "interrupt"} :
        /\ lastPoll' = r
        /\ pollLog' = Logged(pollLog, r)
        /\ CASE r = ok -> Goto(p) /\ UNCHANGED attempt
             [] IsFailedStatus(r) -> Exit("failed", cur) /\ UNCHANGED attempt
             [] r = "interrupt" -> Interrupted(cur) /\ UNCHANGED attempt
             [] OTHER ->
                 /\ attempt' = attempt + 1
                 /\ IF WaitLoopContinues(attempt') THEN UNCHANGED <<pc, exitCode, cause, failed>>
                    ELSE IF TimedOut(attempt') THEN Exit("timeout", cur)
                    ELSE Goto(p)
    /\ UNCHANGED <<inputs, scriptv, region, cfgv, mainv, queue, actv, called, secretSet, lambdav, payload, keyFile>>

\* the wait after update_function_code: State Active and LastUpdateStatus Successful
aws_wait_update == pc = "aws_wait_update" /\ WaitStep("settled", "aws_update_config")

\* update path: lambda_client.update_function_configuration(...)
aws_update_config ==
    /\ pc = "aws_update_config"
    /\ Issue("config")
    /\ sent' = ConfigCall(cur)
    /\ \E r \in {"ok", "notfound", "error"} :
        CASE r = "ok" -> Deployed /\ NextAction("aws_probe")
          [] r = "notfound" -> Goto("aws_create") /\ UNCHANGED <<result, queue>>
          [] OTHER -> Exit("rejected", cur) /\ UNCHANGED <<result, queue>>
    /\ WaitOver
    /\ UNCHANGED <<inputs, scriptv, region, cfgv, mainv, probe, nprobes, called, secretSet, clampWarned, payload,
                   keyFile>>

\* lambda_client.create_function(...); any exception, a ResourceConflictException
\* ("conflict": the function exists by now) included, is re-raised and ends the run
aws_create ==
    /\ pc = "aws_create"
    /\ Issue("create")
    /\ sent' = CreateCall(cur)
    /\ \E r \in {"ok", "conflict", "error"} :
        CASE r = "ok" -> Goto("aws_wait_create")
          [] r = "conflict" -> Exit("conflict", cur)
          [] OTHER -> Exit("rejected", cur)
    /\ WaitOver
    /\ UNCHANGED <<inputs, scriptv, region, cfgv, mainv, queue, probe, nprobes, result, called, secretSet,
                   clampWarned, payload, keyFile>>

\* the wait after create_function: State Active
aws_wait_create == pc = "aws_wait_create" /\ WaitStep("active", "aws_create_config")

\* create path: lambda_client.update_function_configuration(...)
aws_create_config ==
    /\ pc = "aws_create_config"
    /\ Issue("config")
    /\ sent' = ConfigCall(cur)
    /\ \E r \in {"ok", "error"} :
        CASE r = "ok" -> Deployed /\ NextAction("aws_probe")
          [] OTHER -> Exit("rejected", cur) /\ UNCHANGED <<result, queue>>
    /\ WaitOver
    /\ UNCHANGED <<inputs, scriptv, region, cfgv, mainv, probe, nprobes, called, secretSet, clampWarned, payload,
                   keyFile>>

----------------------------------------------------------------------------
(* deploy_to_github *)

\* token, GITHUB_REPOSITORY, the filter
gh_start ==
    /\ pc = "gh_start"
    /\ IF GithubTokenMissing
       THEN Exit("GH_PAT", 0) /\ UNCHANGED queue
       ELSE IF "GITHUB_REPOSITORY" \notin env
       THEN Exit("GITHUB_REPOSITORY", 0) /\ UNCHANGED queue
       ELSE /\ queue' = github_actions
            /\ IF github_actions = <<>> THEN Goto("dispatch") ELSE Goto("gh_repo")
    /\ UNCHANGED <<inputs, scriptv, region, cfgv, mainv, waitv, actv, called, secretSet, lambdav, payload, keyFile>>

\* repo = g.get_repo(repo_name); repo.default_branch; create_secret_payload
gh_repo ==
    /\ pc = "gh_repo"
    /\ called' = called \cup {"github"}
    /\ \E r \in {"ok", "error"} :
        CASE r = "ok" -> Goto("gh_secrets") /\ SecretPayload
          [] OTHER -> Exit("rejected", 0) /\ UNCHANGED <<payload, cfgv>>
    /\ UNCHANGED <<inputs, scriptv, region, mainv, queue, waitv, actv, secretSet, lambdav, keyFile>>

gh_secretsFailurePrinted ==
    /\ pc = "gh_secrets"
    /\ \E r \in {"ok", "error"} : Goto("gh_get") /\ secretSet' = (r = "ok")
    /\ UNCHANGED <<inputs, scriptv, region, cfgv, mainv, queue, waitv, actv, called, lambdav, payload, keyFile>>

\* ensure_github_secrets_and_vars: repo.get_secrets(), repo.create_secret(), then
\* set_github_variable, whose failure is only printed
gh_secrets ==
    /\ pc = "gh_secrets"
    /\ \E r \in {"ok", "error"} :
        CASE r = "ok" -> Goto("gh_get") /\ secretSet' = TRUE
          [] OTHER -> Exit("rejected", 0) /\ UNCHANGED secretSet
    /\ UNCHANGED <<inputs, scriptv, region, cfgv, mainv, queue, waitv, actv, called, lambdav, payload, keyFile>>

\* contents = repo.get_contents(workflow_path) and the comparison of the contents
gh_get ==
    /\ pc = "gh_get"
    /\ \E r \in {"same", "differs", "notfound", "error"} :
        /\ Probed(CASE r = "notfound" -> "notfound" [] r = "error" -> "error" [] OTHER -> "found")
        /\ CASE r = "same" -> result' = [result EXCEPT ![cur] = "deployed"] /\ NextAction("gh_get")
             [] r = "differs" -> Goto("gh_update") /\ UNCHANGED <<result, queue>>
             [] r = "notfound" -> Goto("gh_create") /\ UNCHANGED <<result, queue>>
             [] OTHER -> Exit("probe_error", cur) /\ UNCHANGED <<result, queue>>
    /\ UNCHANGED <<inputs, scriptv, region, cfgv, mainv, waitv, called, secretSet, lambdav, payload, keyFile>>

\* repo.update_file(...); an exception whose text holds "Not Found" or "404" is
\* handled by the same except clause as a missing file
gh_update ==
    /\ pc = "gh_update"
    /\ Issue("update")
    /\ \E r \in {"ok", "notfound", "error"} :
        CASE r = "ok" -> Deployed /\ NextAction("gh_get")
          [] r = "notfound" -> Goto("gh_create") /\ UNCHANGED <<result, queue>>
          [] OTHER -> Exit("rejected", cur) /\ UNCHANGED <<result, queue>>
    /\ UNCHANGED <<inputs, scriptv, region, cfgv, mainv, waitv, probe, nprobes, called, secretSet, lambdav, payload, keyFile>>

\* repo.create_file(...); "conflict": the file exists by now
gh_create ==
    /\ pc = "gh_create"
    /\ Issue("create")
    /\ \E r \in {"ok", "conflict", "error"} :
        CASE r = "ok" -> Deployed /\ NextAction("gh_get")
          [] r = "conflict" -> Exit("conflict", cur) /\ UNCHANGED <<result, queue>>
          [] OTHER -> Exit("rejected", cur) /\ UNCHANGED <<result, queue>>
    /\ UNCHANGED <<inputs, scriptv, region, cfgv, mainv, waitv, probe, nprobes, called, secretSet, lambdav, payload, keyFile>>

----------------------------------------------------------------------------
(* deploy_to_ow *)

\* get_openwhisk_credentials looks for a server whose FaaSType.lower() is 'openwhisk'
OwServerFound == \E i \in DOMAIN ComputeServers : Lower(ComputeServers[i]) = "openwhisk"

\* get_openwhisk_credentials, the filter, wsk property set
ow_start ==
    /\ pc = "ow_start"
    /\ IF ~OwServerFound
       THEN Exit("NO_OW_SERVER", 0) /\ UNCHANGED queue
       ELSE /\ queue' = ow_actions
            /\ IF ow_actions = <<>> THEN Goto("dispatch") ELSE Goto("ow_probe")
    /\ UNCHANGED <<inputs, scriptv, region, cfgv, mainv, waitv, actv, called, secretSet, lambdav, payload, keyFile>>

\* exists = subprocess.run("wsk action get ...").returncode == 0
ow_probe ==
    /\ pc = "ow_probe"
    /\ called' = called \cup {"openwhisk"}
    /\ \E r \in {"found", "notfound"} : Probed(r)
    /\ Goto("ow_cmd")
    /\ UNCHANGED <<inputs, scriptv, region, cfgv, mainv, queue, waitv, result, secretSet, lambdav, payload, keyFile>>

\* wsk action update if exists, else wsk action create; a non-zero return code raises
ow_cmd ==
    /\ pc = "ow_cmd"
    /\ Issue(IF probe = "found" THEN "update" ELSE "create")
    /\ \E r \in {"ok", "error"} :
        CASE r = "ok" -> Deployed /\ NextAction("ow_probe")
          [] OTHER -> Exit("rejected", cur) /\ UNCHANGED <<result, queue>>
    /\ UNCHANGED <<inputs, scriptv, region, cfgv, mainv, waitv, probe, nprobes, called, secretSet, lambdav, payload, keyFile>>

----------------------------------------------------------------------------
(* deploy_to_gcp *)

\* sys.exit(1) out of reach of the finally clause
GcpExitKeepsFile(c, a) == Exit(c, a) /\ UNCHANGED keyFile
\* sys.exit(1) inside the try block of deploy_to_gcp: the finally clause unlinks the key file
GcpExit(c, a) == Exit(c, a) /\ keyFile' = FALSE

\* the end of one iteration of the loop over gcp_actions; the return after the
\* last one runs the finally clause
GcpNextAction ==
    /\ NextAction("gcp_probe")
    /\ keyFile' = IF Tail(queue) = <<>> THEN FALSE ELSE keyFile

\* get_gcp_credentials_from_workflow (exit without Namespace or SecretKey; the key
\* file is written when service_account_key is not empty), FunctionServiceClient(),
\* create_secret_payload, the filter
gcp_start ==
    /\ pc = "gcp_start"
    /\ IF ~Truthy(gcp_server_config["Namespace"]) \/ ~Truthy(gcp_server_config["SecretKey"])
       THEN Exit("gcp_setup", 0) /\ UNCHANGED <<payload, cfgv, queue, keyFile, region>>
       ELSE \E r \in {"ok", "client_error"} :
        IF r = "client_error"
        THEN GcpExit("gcp_setup", 0) /\ UNCHANGED <<payload, cfgv, queue, region>>
        ELSE IF GithubTokenMissing
        THEN GcpExit("GH_PAT", 0) /\ UNCHANGED <<payload, cfgv, queue, region>>
        ELSE /\ SecretPayload
             /\ queue' = gcp_actions
             /\ region' = gcp_region
             /\ IF gcp_actions = <<>>
                THEN Goto("dispatch") /\ keyFile' = FALSE
                ELSE Goto("gcp_probe") /\ keyFile' = Truthy(service_account_key)
    /\ UNCHANGED <<inputs, scriptv, mainv, waitv, actv, called, secretSet, lambdav>>

\* existing_function = functions_client.get_function(name=function_path)
gcp_probe ==
    /\ pc = "gcp_probe"
    /\ called' = called \cup {"gcp"}
    /\ \E r \in {"found", "notfound", "error"} :
        /\ Probed(r)
        /\ CASE r = "found" -> Goto("gcp_update") /\ UNCHANGED keyFile
             [] r = "notfound" -> Goto("gcp_create") /\ UNCHANGED keyFile
             [] OTHER -> GcpExit("probe_error", cur)
    /\ UNCHANGED <<inputs, scriptv, region, cfgv, mainv, queue, waitv, result, secretSet, lambdav, payload>>

\* functions_client.update_function(...) and operation.result(timeout=300); an
\* exception whose text holds "not found" or "404" takes the create branch
gcp_update ==
    /\ pc = "gcp_update"
    /\ Issue("update")
    /\ \E r \in {"ok", "notfound", "error"} :
        CASE r = "ok" -> Deployed /\ GcpNextAction
          [] r = "notfound" -> Goto("gcp_create") /\ UNCHANGED <<result, queue, keyFile>>
          [] OTHER -> GcpExit("rejected", cur) /\ UNCHANGED <<result, queue>>
    /\ UNCHANGED <<inputs, scriptv, region, cfgv, mainv, waitv, probe, nprobes, called, secretSet, lambdav, payload>>

\* functions_client.create_function(...) and operation.result(timeout=600);
\* "conflict": the function exists by now
gcp_create ==
    /\ pc = "gcp_create"
    /\ Issue("create")
    /\ \E r \in {"ok", "conflict", "error"} :
        CASE r = "ok" -> Deployed /\ GcpNextAction
          [] r = "conflict" -> GcpExit("conflict", cur) /\ UNCHANGED <<result, queue>>
          [] OTHER -> GcpExit("rejected", cur) /\ UNCHANGED <<result, queue>>
    /\ UNCHANGED <<inputs, scriptv, region, cfgv, mainv, waitv, probe, nprobes, called, secretSet, lambdav, payload>>

----------------------------------------------------------------------------

Next ==
    \/ main_read
    \/ main_validate
    \/ main_collect
    \/ main_dispatch
    \/ main_done
    \/ aws_start
    \/ aws_probe
    \/ aws_update_code
    \/ aws_wait_update
    \/ aws_update_config
    \/ aws_create
    \/ aws_wait_create
    \/ aws_create_config
    \/ gh_start
    \/ gh_repo
    \/ gh_secrets
    \/ gh_get
    \/ gh_update
    \/ gh_create
    \/ ow_start
    \/ ow_probe
    \/ ow_cmd
    \/ gcp_start
    \/ gcp_probe
    \/ gcp_update
    \/ gcp_create

Spec == Init /\ [][Next]_vars

----------------------------------------------------------------------------
(* deploy_to_aws on its own: one Lambda action and the limits its workflow gives *)

InitLambda ==
    /\ ComputeServers = <<"Lambda">>
    /\ DefaultNames
    /\ server_config = [i \in Actions |-> ConfigOf(i, "placeholder")]
    /\ store_config = [k \in {"My_Minio_Bucket"} |-> StoreOf(k, "placeholder")]
    /\ action_data \in [Actions -> [MaxMemory : Optional(MemoryRequests),
                                    MaxRuntime : Optional(RuntimeRequests)]]
    /\ server_limits \in [Actions -> [MaxMemory : Optional(ServerMemoryRequests),
                                      MaxRuntime : Optional(ServerRuntimeRequests)]]
    /\ env = EnvVars
    /\ validate_json_result = "true"
    /\ faas_types = {}
    /\ faas_type = "lambda"
    /\ pc = "aws_start"
    /\ StartDeploy

NextLambda ==
    \/ aws_start
    \/ aws_probe
    \/ aws_update_code
    \/ aws_wait_update
    \/ aws_update_config
    \/ aws_create
    \/ aws_wait_create
    \/ aws_create_config
    \/ main_done

SpecLambda == InitLambda /\ [][NextLambda]_vars

----------------------------------------------------------------------------
(* deploy_to_gcp on its own: Cloud Functions actions under any distinct names *)

InitGcp ==
    /\ ComputeServers \in SeqsUpTo({"GoogleCloud", "gcp"}, MaxServers) \ {<<>>}
    /\ ActionList \in {l \in SeqsUpTo(Range(ActionNames), MaxServers) :
                          /\ Len(l) = Len(ComputeServers)
                          /\ \A a, b \in DOMAIN l : a # b => l[a] # l[b]}
    /\ server_config = [i \in Actions |-> ConfigOf(i, "named")]
    /\ store_config = [k \in {"My_Minio_Bucket"} |-> StoreOf(k, "placeholder")]
    /\ NoLimits
    /\ env = EnvVars
    /\ validate_json_result = "true"
    /\ faas_types = {}
    /\ faas_type = "gcp"
    /\ pc = "gcp_start"
    /\ StartDeploy

NextGcp ==
    \/ gcp_start
    \/ gcp_probe
    \/ gcp_update
    \/ gcp_create
    \/ main_done

SpecGcp == InitGcp /\ [][NextGcp]_vars

----------------------------------------------------------------------------
(* create_secret_payload on its own *)

\* get_github_token() exits, or the credentials table is built
create_secret_payload ==
    /\ pc = "payload"
    /\ IF GithubTokenMissing
       THEN Exit("GH_PAT", 0) /\ UNCHANGED <<payload, cfgv>>
       ELSE Goto("payload_done") /\ SecretPayload
    /\ UNCHANGED <<inputs, scriptv, region, mainv, queue, waitv, actv, called, secretSet, lambdav, keyFile>>

\* create_secret_payload(json.loads(p)) where p is the string the first call
\* returned: the table is built again and the top-level keys of p win over it
create_secret_payload_twice ==
    /\ pc = "payload_done"
    /\ Goto("payload_twice")
    /\ payload' = Update(credentials,
                          [s \in DOMAIN payload |->
                              IF s \in Slots THEN JsonLoads(JsonDumps(payload[s])) ELSE payload[s]])
    /\ server_config' = ResolvedServers
    /\ store_config' = ResolvedStores
    /\ UNCHANGED <<inputs, scriptv, region, mainv, queue, waitv, actv, called, secretSet, lambdav, keyFile>>

NextPayload == create_secret_payload \/ create_secret_payload_twice

SpecPayload == InitPayload /\ [][NextPayload]_vars


----------------------------------------------------------------------------
(* migration_adapter.py: FaaSrPayloadAdapter._setup_credentials on its own *)

\* the environment variables _setup_credentials reads
AdapterVars == {"GITHUB_TOKEN", "MINIO_ACCESS_KEY", "MINIO_SECRET_KEY", "OW_API_KEY",
                "AWS_ACCESS_KEY_ID", "AWS_SECRET_ACCESS_KEY"}

\* the credentials dict of _setup_credentials, as field values
adapter_credentials ==
    [s \in {"My_GitHub_Account_TOKEN", "My_Minio_Bucket_ACCESS_KEY",
            "My_Minio_Bucket_SECRET_KEY", "My_OW_Account_API_KEY",
            "My_Lambda_Account_ACCESS_KEY", "My_Lambda_Account_SECRET_KEY"} |->
        CASE s = "My_GitHub_Account_TOKEN" -> Str(Getenv("GITHUB_TOKEN"))
          [] s = "My_Minio_Bucket_ACCESS_KEY" -> Str(Getenv("MINIO_ACCESS_KEY"))
          [] s = "My_Minio_Bucket_SECRET_KEY" -> Str(Getenv("MINIO_SECRET_KEY"))
          [] s = "My_OW_Account_API_KEY" -> Str(GetenvDefault("OW_API_KEY"))
          [] s = "My_Lambda_Account_ACCESS_KEY" -> Str(GetenvDefault("AWS_ACCESS_KEY_ID"))
          [] OTHER -> Str(GetenvDefault("AWS_SECRET_ACCESS_KEY"))]

\* `if credential: config['X'] = credential`
SetIfTruthy(v, c) == IF Truthy(c) THEN c ELSE v

\* the branch of _setup_credentials for one server; faas_type is lower-cased
AdapterServer(i) ==
    LET t == Lower(ComputeServers[i])
        c == server_config[i]
    IN  CASE IsLambdaType(t) ->
                [c EXCEPT !["AccessKey"] =
                              SetIfTruthy(@, adapter_credentials["My_Lambda_Account_ACCESS_KEY"]),
                          !["SecretKey"] =
                              SetIfTruthy(@, adapter_credentials["My_Lambda_Account_SECRET_KEY"])]
          [] IsGithubType(t) ->
                [c EXCEPT !["Token"] =
                              SetIfTruthy(@, adapter_credentials["My_GitHub_Account_TOKEN"])]
          [] IsOwType(t) ->
                [c EXCEPT !["API.key"] =
                              SetIfTruthy(@, adapter_credentials["My_OW_Account_API_KEY"])]
          [] OTHER -> c

\* the branch of _setup_credentials for one data store
AdapterStore(k) ==
    IF k = "My_Minio_Bucket"
    THEN [store_config[k] EXCEPT
              !["AccessKey"] = SetIfTruthy(@, adapter_credentials["My_Minio_Bucket_ACCESS_KEY"]),
              !["SecretKey"] = SetIfTruthy(@, adapter_credentials["My_Minio_Bucket_SECRET_KEY"])]
    ELSE store_config[k]

\* a workflow and the environment of the migration adapter
InitAdapter ==
    /\ ComputeServers \in SeqsUpTo(TypeStrings \ {"Slurm"}, MaxServers)
    /\ server_config \in {[i \in Actions |-> ConfigOf(i, m[i])] : m \in ServerModes}
    /\ store_config \in {[k \in {key} |-> StoreOf(k, m)] : key \in StoreKeys, m \in StoreModes}
    /\ env \in {AdapterVars \ u : u \in {v \in SUBSET AdapterVars : Cardinality(v) <= MaxUnset}}
    /\ NoLimits
    /\ DefaultNames
    /\ pc = "adapter"
    /\ Start

\* self.data = workflow_data.copy() is shallow: the nested dicts are the caller's
_setup_credentials ==
    /\ pc = "adapter"
    /\ Goto("adapter_done")
    /\ server_config' = [i \in DOMAIN server_config |-> AdapterServer(i)]
    /\ store_config' = [k \in DOMAIN store_config |-> AdapterStore(k)]
    /\ UNCHANGED <<inputs, scriptv, region, mainv, queue, waitv, actv, called, secretSet, lambdav, payload, keyFile>>

NextAdapter == _setup_credentials

SpecAdapter == InitAdapter /\ [][NextAdapter]_vars

----------------------------------------------------------------------------
(* The other scripts: each is a process of its own with its own positions; the
   state of register_workflow.py stays as it is while one of them runs *)

registerv == <<ActionList, ComputeServers, server_config, store_config, action_data,
               server_limits, sent, clampWarned, validate_json_result, faas_types, faas_type,
               attempt, polls, lastPoll, pollLog, region, probe, issued, nprobes, result,
               called, secretSet, payload, keyFile, warned>>

\* no workflow is loaded and no deploy routine has run
RegisterIdle ==
    /\ ActionList = <<>>
    /\ ComputeServers = <<>>
    /\ server_config = <<>>
    /\ store_config = <<>>
    /\ action_data = <<>>
    /\ server_limits = <<>>
    /\ sent = NoCall
    /\ clampWarned = {}
    /\ validate_json_result = "none"
    /\ faas_types = {}
    /\ faas_type = ""
    /\ attempt = 0
    /\ polls = 0
    /\ lastPoll = "none"
    /\ pollLog = <<>>
    /\ region = ""
    /\ probe = "none"
    /\ issued = {}
    /\ nprobes = <<>>
    /\ result = <<>>
    /\ called = {}
    /\ secretSet = FALSE
    /\ payload = NoPayload
    /\ keyFile = FALSE
    /\ warned = {}

\* a script before its first step
ScriptStart ==
    /\ exitCode = -1
    /\ cause = ""
    /\ failed = 0
    /\ queue = <<>>

\* sys.exit(0)
ExitOk == pc' = "exit" /\ exitCode' = 0 /\ UNCHANGED <<cause, failed>>

----------------------------------------------------------------------------
(* sync_secrets.py *)

SERVER_SECRETS_MAP(n) ==
    CASE n = "AWS" -> <<"AWS_AccessKey", "AWS_SecretKey", "AWS_ARN">>
      [] n = "GCP" -> <<"GCP_SecretKey">>
      [] n = "OW" -> <<"OW_APIkey">>
      [] n = "SLURM" -> <<"SLURM_Token">>
      [] OTHER -> <<"GH_PAT">>

\* `for server_name in args.server: secrets.extend(...)`
RECURSIVE ServerSecrets(_)
ServerSecrets(server) ==
    IF server = <<>> THEN <<>>
    ELSE SERVER_SECRETS_MAP(Head(server)) \o ServerSecrets(Tail(server))

\* args.data_server_name.strip().upper() and the two names built from it
DataServerSecrets(n) ==
    IF n = " minio " THEN <<"MINIO_ACCESSKEY", "MINIO_SECRETKEY">> ELSE <<>>

get_secrets_to_sync(a) ==
    ServerSecrets(a.server)
    \o (IF a.data_server_name # "" THEN DataServerSecrets(a.data_server_name) ELSE <<>>)

secrets == get_secrets_to_sync(args)

\* the command lines of the model
SyncSelections ==
    {[server |-> <<>>, data_server_name |-> ""],
     [server |-> <<"GH_PAT">>, data_server_name |-> ""],
     [server |-> <<"OW", "GH_PAT">>, data_server_name |-> ""],
     [server |-> <<"GCP">>, data_server_name |-> ""],
     [server |-> <<>>, data_server_name |-> " minio "]}
SyncCommandLines ==
    {[script |-> "sync_secrets", server |-> x.server, data_server_name |-> x.data_server_name,
      sync_to_aws |-> a, sync_to_gcp |-> g] : x \in SyncSelections, a \in BOOLEAN, g \in BOOLEAN}

\* the environment variables sync_secrets reads for command line a
SyncVars(a) == Range(get_secrets_to_sync(a)) \cup {"AWS_REGION", "GCP_PROJECT_ID", "GCP_SecretKey"}

Providers == {"aws", "gcp"}
NotSynced == [probe |-> "none", calls |-> {}, outcome |-> "none"]

\* the client libraries sync_secrets imports inside its functions
SyncModules == {"boto3", "requests"}

\* up to MaxUnset of the variables are not set or hold the mask "***"
InitSync ==
    /\ RegisterIdle
    /\ ScriptStart
    /\ args \in SyncCommandLines
    /\ \E u \in SUBSET SyncVars(args) :
       \E m \in SUBSET (Range(secrets) \ u) :
          /\ Cardinality(u \cup m) <= MaxUnset
          /\ env = SyncVars(args) \ u
          /\ \E i \in SUBSET SyncModules : world = [masked |-> m, installed |-> i]
    /\ success = FALSE
    /\ overall_success = FALSE
    /\ synced = [k \in Providers \X Range(secrets) |-> NotSynced]
    /\ ran = <<>>
    /\ data = <<>>
    /\ overwritten = <<>>
    /\ triggered = <<>>
    /\ pc = "sync_main"

syncrest == <<registerv, args, world, env, ran, data, overwritten, triggered>>

\* the skip test without the mask
SkippedUnsetOnly(s) == s \notin env

\* `if not secret_value or secret_value == "***": continue`
Skipped(s) == s \notin env \/ s \in world.masked

WithProbe(t, k, r) == [t EXCEPT ![k].probe = r]
WithCall(t, k, c) == [t EXCEPT ![k].calls = @ \cup {c}]
WithOutcome(t, k, o) == [t EXCEPT ![k].outcome = o]

\* the rest of the loop body is skipped or done: the next secret
NextSecret == queue' = Tail(queue) /\ UNCHANGED <<pc, exitCode, cause, failed>>

AfterAws == IF args.sync_to_gcp THEN "sync_gcp" ELSE "sync_end"

\* main() up to the first provider
sync_main ==
    /\ pc = "sync_main"
    /\ IF ~args.sync_to_aws /\ ~args.sync_to_gcp
       THEN Exit("no_provider", 0) /\ UNCHANGED overall_success
       ELSE IF secrets = <<>>
       THEN ExitOk /\ UNCHANGED overall_success
       ELSE /\ overall_success' = TRUE
            /\ Goto(IF args.sync_to_aws THEN "sync_aws" ELSE "sync_gcp")
    /\ UNCHANGED <<syncrest, queue, success, synced>>

\* main(): AWS_REGION; sync_to_aws: the import, the client, success = True
sync_aws_start ==
    /\ pc = "sync_aws"
    /\ IF "AWS_REGION" \notin env
       THEN Exit("AWS_REGION", 0) /\ UNCHANGED <<success, overall_success, queue>>
       ELSE IF "boto3" \notin world.installed
       THEN overall_success' = FALSE /\ Goto(AfterAws) /\ UNCHANGED <<success, queue>>
       ELSE success' = TRUE /\ queue' = secrets /\ Goto("s_aws_loop")
            /\ UNCHANGED overall_success
    /\ UNCHANGED <<syncrest, synced>>

\* one secret of sync_to_aws: the skip test, then client.describe_secret
sync_aws_secret ==
    /\ pc = "s_aws_loop"
    /\ queue # <<>>
    /\ LET k == <<"aws", cur>> IN
       IF Skipped(cur)
       THEN synced' = WithOutcome(synced, k, "skipped") /\ NextSecret /\ UNCHANGED success
       ELSE \E r \in {"found", "notfound", "error"} :
            LET t == WithCall(WithProbe(synced, k, r), k, "describe_secret") IN
            CASE r = "found" -> synced' = t /\ Goto("s_aws_put") /\ UNCHANGED <<queue, success>>
              [] r = "notfound" ->
                    synced' = t /\ Goto("s_aws_create") /\ UNCHANGED <<queue, success>>
              [] OTHER -> synced' = WithOutcome(t, k, "failed") /\ success' = FALSE /\ NextSecret
    /\ UNCHANGED <<syncrest, overall_success>>

\* client.put_secret_value; a ClientError with code ResourceNotFoundException raised
\* here is caught by the `except ClientError` of the describe_secret try block
sync_aws_put ==
    /\ pc = "s_aws_put"
    /\ LET k == <<"aws", cur>>
           t == WithCall(synced, k, "put_secret_value") IN
       \E r \in {"ok", "notfound", "error"} :
           CASE r = "ok" -> synced' = WithOutcome(t, k, "ok") /\ Goto("s_aws_loop")
                            /\ queue' = Tail(queue) /\ UNCHANGED success
             [] r = "notfound" -> synced' = t /\ Goto("s_aws_create") /\ UNCHANGED <<queue, success>>
             [] OTHER -> synced' = WithOutcome(t, k, "failed") /\ Goto("s_aws_loop")
                         /\ queue' = Tail(queue) /\ success' = FALSE
    /\ UNCHANGED <<syncrest, overall_success>>

\* client.create_secret
sync_aws_create ==
    /\ pc = "s_aws_create"
    /\ LET k == <<"aws", cur>>
           t == WithCall(synced, k, "create_secret") IN
       \E r \in {"ok", "error"} :
           /\ synced' = WithOutcome(t, k, IF r = "ok" THEN "ok" ELSE "failed")
           /\ success' = IF r = "ok" THEN success ELSE FALSE
    /\ Goto("s_aws_loop")
    /\ queue' = Tail(queue)
    /\ UNCHANGED <<syncrest, overall_success>>

\* `return success` and `if not sync_to_aws(...): overall_success = False`
sync_aws_return ==
    /\ pc = "s_aws_loop"
    /\ queue = <<>>
    /\ overall_success' = (overall_success /\ success)
    /\ Goto(AfterAws)
    /\ UNCHANGED <<syncrest, queue, success, synced>>

\* main(): GCP_PROJECT_ID, GCP_SecretKey, refresh_gcp_access_token; sync_to_gcp: the
\* import, success = True
sync_gcp_start ==
    /\ pc = "sync_gcp"
    /\ IF "GCP_PROJECT_ID" \notin env
       THEN Exit("GCP_PROJECT_ID", 0) /\ UNCHANGED <<success, overall_success, queue>>
       ELSE IF "GCP_SecretKey" \notin env
       THEN Exit("GCP_SecretKey", 0) /\ UNCHANGED <<success, overall_success, queue>>
       ELSE \E r \in {"ok", "auth_error"} :
            IF r = "auth_error"
            THEN Exit("gcp_auth", 0) /\ UNCHANGED <<success, overall_success, queue>>
            ELSE IF "requests" \notin world.installed
            THEN overall_success' = FALSE /\ Goto("sync_end") /\ UNCHANGED <<success, queue>>
            ELSE success' = TRUE /\ queue' = secrets /\ Goto("s_gcp_loop")
                 /\ UNCHANGED overall_success
    /\ UNCHANGED <<syncrest, synced>>

\* one secret of sync_to_gcp: the skip test, then requests.get(secret_url)
sync_gcp_secret ==
    /\ pc = "s_gcp_loop"
    /\ queue # <<>>
    /\ LET k == <<"gcp", cur>> IN
       IF Skipped(cur)
       THEN synced' = WithOutcome(synced, k, "skipped") /\ NextSecret /\ UNCHANGED success
       ELSE \E r \in {"200", "404", "other", "raise"} :
            LET t == WithCall(WithProbe(synced, k, r), k, "get") IN
            CASE r = "200" -> synced' = t /\ Goto("s_gcp_add") /\ UNCHANGED <<queue, success>>
              [] r = "404" -> synced' = t /\ Goto("s_gcp_create") /\ UNCHANGED <<queue, success>>
              [] OTHER -> synced' = WithOutcome(t, k, "failed") /\ success' = FALSE /\ NextSecret
    /\ UNCHANGED <<syncrest, overall_success>>

\* requests.post(base_url, ..., params=create_params)
sync_gcp_create ==
    /\ pc = "s_gcp_create"
    /\ LET k == <<"gcp", cur>>
           t == WithCall(synced, k, "create") IN
       \E r \in {"ok", "bad", "raise"} :
           IF r = "ok"
           THEN synced' = t /\ Goto("s_gcp_add") /\ UNCHANGED <<queue, success>>
           ELSE synced' = WithOutcome(t, k, "failed") /\ Goto("s_gcp_loop")
                /\ queue' = Tail(queue) /\ success' = FALSE
    /\ UNCHANGED <<syncrest, overall_success>>

\* requests.post(version_url, ...): a new version of an existing secret or the
\* initial version of a created one
sync_gcp_add ==
    /\ pc = "s_gcp_add"
    /\ LET k == <<"gcp", cur>>
           t == WithCall(synced, k, "addVersion") IN
       \E r \in {"ok", "bad", "raise"} :
           /\ synced' = WithOutcome(t, k, IF r = "ok" THEN "ok" ELSE "failed")
           /\ success' = IF r = "ok" THEN success ELSE FALSE
    /\ Goto("s_gcp_loop")
    /\ queue' = Tail(queue)
    /\ UNCHANGED <<syncrest, overall_success>>

\* `return success` and `if not sync_to_gcp(...): overall_success = False`
sync_gcp_return ==
    /\ pc = "s_gcp_loop"
    /\ queue = <<>>
    /\ overall_success' = (overall_success /\ success)
    /\ Goto("sync_end")
    /\ UNCHANGED <<syncrest, queue, success, synced>>

\* the end of main(): sys.exit(0) or sys.exit(1)
sync_end ==
    /\ pc = "sync_end"
    /\ IF overall_success THEN ExitOk ELSE Exit("sync_failed", 0)
    /\ UNCHANGED <<syncrest, queue, success, overall_success, synced>>

NextSync ==
    \/ sync_main
    \/ sync_aws_start
    \/ sync_aws_secret
    \/ sync_aws_put
    \/ sync_aws_create
    \/ sync_aws_return
    \/ sync_gcp_start
    \/ sync_gcp_secret
    \/ sync_gcp_create
    \/ sync_gcp_add
    \/ sync_gcp_return
    \/ sync_end

SpecSync == InitSync /\ [][NextSync]_vars

----------------------------------------------------------------------------
(* deploy_terraform.py *)

TerraformCommandLines ==
    {[script |-> "deploy_terraform", plan_only |-> p, destroy |-> d, auto_approve |-> a] :
        p \in BOOLEAN, d \in BOOLEAN, a \in BOOLEAN}

\* the terraform directory, its .terraform directory, the workflow file (missing,
\* not JSON, a JSON object without FunctionList, or one with it) and the answer read
\* from the terminal
InitTerraform ==
    /\ RegisterIdle
    /\ ScriptStart
    /\ args \in TerraformCommandLines
    /\ world \in [terraform_dir : BOOLEAN, dot_terraform : BOOLEAN,
                  workflow_file : {"ok", "no_FunctionList", "missing", "invalid"},
                  response : {"none"}]
    /\ env = {}
    /\ success = FALSE
    /\ overall_success = FALSE
    /\ synced = <<>>
    /\ ran = <<>>
    /\ data = <<>>
    /\ overwritten = <<>>
    /\ triggered = <<>>
    /\ pc = "tf_main"

tfrest == <<registerv, args, env, queue, overall_success, synced, data, overwritten, triggered>>

\* the command line as run_terraform_command runs it, and whether it succeeded
TerraformRun(command, auto_approve, ok) ==
    [command |-> command, flag |-> auto_approve /\ command = "apply", ok |-> ok]

\* run_terraform_command: True, or False after CalledProcessError or FileNotFoundError
run_terraform_command(command, auto_approve, ok) ==
    ran' = Append(ran, TerraformRun(command, auto_approve, ok))

\* str.lower() of the answers of the model
LowerAnswer(r) == IF r = "Yes" THEN "yes" ELSE r

\* main() up to the init test
tf_main ==
    /\ pc = "tf_main"
    /\ IF ~world.terraform_dir THEN Exit("terraform_dir", 0)
       ELSE IF world.workflow_file \in {"missing", "invalid"} THEN Exit("workflow_file", 0)
       ELSE Goto(IF world.dot_terraform THEN "tf_op" ELSE "tf_init")
    /\ UNCHANGED <<tfrest, world, success, ran>>

\* `if not run_terraform_command(['init'], terraform_dir): sys.exit(1)`
tf_init ==
    /\ pc = "tf_init"
    /\ \E ok \in BOOLEAN :
         /\ run_terraform_command("init", FALSE, ok)
         /\ IF ok
            THEN Goto("tf_op") /\ world' = [world EXCEPT !.dot_terraform = TRUE]
            ELSE Exit("init", 0) /\ UNCHANGED world
    /\ UNCHANGED <<tfrest, success>>

\* `if args.destroy:`
tf_destroy ==
    /\ pc = "tf_op"
    /\ args.destroy
    /\ \E ok \in BOOLEAN :
         /\ run_terraform_command("destroy", args.auto_approve, ok)
         /\ success' = ok
    /\ Goto("tf_end")
    /\ UNCHANGED <<tfrest, world>>

\* the plan whose result is not looked at before the apply
tf_planUnchecked ==
    /\ pc = "tf_op"
    /\ ~args.destroy
    /\ \E ok \in BOOLEAN :
         /\ run_terraform_command("plan", FALSE, ok)
         /\ IF args.plan_only THEN success' = ok /\ Goto("tf_end")
            ELSE IF args.auto_approve THEN Goto("tf_apply") /\ UNCHANGED success
            ELSE Goto("tf_input") /\ UNCHANGED success
    /\ UNCHANGED <<tfrest, world>>

\* `elif args.plan_only:` and the plan of the last branch
tf_plan ==
    /\ pc = "tf_op"
    /\ ~args.destroy
    /\ \E ok \in BOOLEAN :
         /\ run_terraform_command("plan", FALSE, ok)
         /\ IF args.plan_only THEN success' = ok /\ Goto("tf_end")
            ELSE IF ~ok THEN success' = FALSE /\ Goto("tf_end")
            ELSE IF args.auto_approve THEN Goto("tf_apply") /\ UNCHANGED success
            ELSE Goto("tf_input") /\ UNCHANGED success
    /\ UNCHANGED <<tfrest, world>>

\* `response = input(...)`: an answer, or EOFError at the end of the input
tf_input ==
    /\ pc = "tf_input"
    /\ \E r \in {"yes", "y", "Yes", "no", "", "EOF"} :
         /\ world' = [world EXCEPT !.response = r]
         /\ IF r = "EOF" THEN Exit("EOFError", 0)
            ELSE IF LowerAnswer(r) \in {"yes", "y"} THEN Goto("tf_apply")
            ELSE ExitOk
    /\ UNCHANGED <<tfrest, success, ran>>

\* `success = run_terraform_command(['apply'], terraform_dir, ...)`
tf_apply ==
    /\ pc = "tf_apply"
    /\ \E ok \in BOOLEAN :
         /\ run_terraform_command("apply", args.auto_approve, ok)
         /\ success' = ok
    /\ Goto("tf_end")
    /\ UNCHANGED <<tfrest, world>>

\* `if success:` ... the outputs and handle_openwhisk_deployment, which reads
\* workflow_data['FunctionList']
tf_end ==
    /\ pc = "tf_end"
    /\ IF ~success THEN Exit("terraform", 0) /\ UNCHANGED ran
       ELSE IF args.destroy \/ args.plan_only THEN ExitOk /\ UNCHANGED ran
       ELSE \E ok \in BOOLEAN :
            /\ run_terraform_command("output", FALSE, ok)
            /\ IF world.workflow_file = "no_FunctionList" THEN Exit("KeyError", 0) ELSE ExitOk
    /\ UNCHANGED <<tfrest, world, success>>

NextTerraform ==
    \/ tf_main
    \/ tf_init
    \/ tf_destroy
    \/ tf_plan
    \/ tf_input
    \/ tf_apply
    \/ tf_end

SpecTerraform == InitTerraform /\ [][NextTerraform]_vars

----------------------------------------------------------------------------
(* migration_adapter.py: FaaSrPayloadAdapter.overwritten and the script *)

\* the keys _setup_overwritten_fields and __setitem__ leave out
ExcludedKeys == {"ComputeServers", "DataStores", "_workflow_file"}

\* the top-level keys and values of the workflows of the model; a nested object is
\* denoted by one value, as the adapter copies the reference
WorkflowKeys == {"FunctionInvoke", "WorkflowName", "ActionList"} \cup ExcludedKeys
ItemValues == {"v1", "v2"}
ActionKeys == {"compute-sum", "plot"}

\* dict.get(k, default)
DictGet(d, k, default) == IF k \in DOMAIN d THEN d[k] ELSE default

\* d[key] = value
DictSet(d, key, value) == [k \in DOMAIN d \cup {key} |-> IF k = key THEN value ELSE d[k]]

\* the four fields set first
OverwrittenDefaults(d) ==
    [FunctionInvoke |-> DictGet(d, "FunctionInvoke", "None"),
     InvocationID |-> DictGet(d, "InvocationID", ""),
     InvocationTimestamp |-> DictGet(d, "InvocationTimestamp", ""),
     WorkflowName |-> DictGet(d, "WorkflowName", "default")]

\* the copy loop without its exclusion list
_setup_overwritten_fieldsAll(d) ==
    [k \in DOMAIN OverwrittenDefaults(d) \cup DOMAIN d |->
        IF k \in DOMAIN d THEN d[k] ELSE OverwrittenDefaults(d)[k]]

_setup_overwritten_fields(d) ==
    [k \in DOMAIN OverwrittenDefaults(d) \cup (DOMAIN d \ ExcludedKeys) |->
        IF k \in DOMAIN d \ ExcludedKeys THEN d[k] ELSE OverwrittenDefaults(d)[k]]

overrest == <<registerv, args, world, env, queue, exitCode, cause, failed, success,
              overall_success, synced, ran, triggered>>

\* a workflow dict handed to the constructor
InitOverwritten ==
    /\ RegisterIdle
    /\ ScriptStart
    /\ args = [script |-> "migration_adapter"]
    /\ world = <<>>
    /\ env = {}
    /\ success = FALSE
    /\ overall_success = FALSE
    /\ synced = <<>>
    /\ ran = <<>>
    /\ \E keys \in SUBSET WorkflowKeys : data \in [keys -> ItemValues]
    /\ overwritten = <<>>
    /\ triggered = <<>>
    /\ pc = "adapter_new"

\* FaaSrPayloadAdapter.__init__: the shallow copy of the dict and the overwritten
\* fields; _setup_credentials changes nested objects only
FaaSrPayloadAdapter ==
    /\ pc = "adapter_new"
    /\ pc' = "adapter_ready"
    /\ overwritten' = _setup_overwritten_fields(data)
    /\ UNCHANGED <<overrest, data>>

\* FaaSrPayloadAdapter.__setitem__(key, value)
__setitem__ ==
    /\ pc = "adapter_ready"
    /\ \E key \in WorkflowKeys, value \in ItemValues :
         /\ data' = DictSet(data, key, value)
         /\ overwritten' = IF key \notin ExcludedKeys THEN DictSet(overwritten, key, value)
                           ELSE overwritten
    /\ UNCHANGED <<overrest, pc>>

NextOverwritten ==
    \/ FaaSrPayloadAdapter
    \/ __setitem__

SpecOverwritten == InitOverwritten /\ [][NextOverwritten]_vars

\* the command lines: no --function-name, an empty one, an action, no action
MigrateCommandLines ==
    {[script |-> "migration_adapter", function_name |-> n] :
        n \in {"None", "", "compute-sum", "ghost"}}

\* the workflow file (missing, not JSON, or a JSON object with or without
\* FunctionInvoke, ActionList and WorkflowName) and what the scheduler will do
InitMigrate ==
    /\ RegisterIdle
    /\ ScriptStart
    /\ args \in MigrateCommandLines
    /\ world \in [workflow_file : {"ok", "missing", "invalid"},
                  FunctionInvoke : {"absent", "", "plot", "ghost"},
                  ActionList : BOOLEAN,
                  WorkflowName : BOOLEAN,
                  scheduler : {"ok", "init_raises", "trigger_raises"}]
    /\ env = {}
    /\ success = FALSE
    /\ overall_success = FALSE
    /\ synced = <<>>
    /\ ran = <<>>
    /\ data = <<>>
    /\ overwritten = <<>>
    /\ triggered = <<>>
    /\ pc = "mig_read"

migrest == <<registerv, args, world, env, queue, success, overall_success, synced, ran>>

\* json.load of the workflow file
FileData(w) ==
    LET keys == {"ComputeServers", "DataStores"}
                \cup (IF w.FunctionInvoke # "absent" THEN {"FunctionInvoke"} ELSE {})
                \cup (IF w.ActionList THEN {"ActionList"} ELSE {})
                \cup (IF w.WorkflowName THEN {"WorkflowName"} ELSE {})
    IN  [k \in keys |-> IF k = "FunctionInvoke" THEN w.FunctionInvoke ELSE "v1"]

\* `if function_name:` and `if not function_invoke:`
FalsyName(n) == n \in {"None", ""}

function_invoke == DictGet(data, "FunctionInvoke", "None")

\* the file is read and --function-name overrides FunctionInvoke
mig_read ==
    /\ pc = "mig_read"
    /\ IF world.workflow_file # "ok"
       THEN Exit("workflow_file", 0) /\ UNCHANGED data
       ELSE /\ data' = IF FalsyName(args.function_name) THEN FileData(world)
                       ELSE DictSet(FileData(world), "FunctionInvoke", args.function_name)
            /\ Goto("mig_check")
    /\ UNCHANGED <<migrest, overwritten, triggered>>

\* the checks without the one of ActionList
mig_checkAnyName ==
    /\ pc = "mig_check"
    /\ IF FalsyName(function_invoke) THEN Exit("FunctionInvoke", 0) /\ UNCHANGED overwritten
       ELSE overwritten' = _setup_overwritten_fields(data) /\ Goto("mig_scheduler")
    /\ UNCHANGED <<migrest, data, triggered>>

\* the two checks of the function to invoke, then the adapter and the payload;
\* workflow_data['ActionList'] of a file without ActionList raises KeyError
mig_check ==
    /\ pc = "mig_check"
    /\ IF FalsyName(function_invoke) THEN Exit("FunctionInvoke", 0) /\ UNCHANGED overwritten
       ELSE IF "ActionList" \notin DOMAIN data THEN Exit("KeyError", 0) /\ UNCHANGED overwritten
       ELSE IF function_invoke \notin ActionKeys
       THEN Exit("not_in_ActionList", 0) /\ UNCHANGED overwritten
       ELSE overwritten' = _setup_overwritten_fields(data) /\ Goto("mig_scheduler")
    /\ UNCHANGED <<migrest, data, triggered>>

\* `scheduler = Scheduler(faasr_payload)`, outside any try block
mig_scheduler ==
    /\ pc = "mig_scheduler"
    /\ IF world.scheduler = "init_raises" THEN Exit("Scheduler", 0) ELSE Goto("mig_trigger")
    /\ UNCHANGED <<migrest, data, overwritten, triggered>>

\* `scheduler.trigger_func(function_invoke)` and its `except Exception`; the end of
\* the script is exit status 0
mig_trigger ==
    /\ pc = "mig_trigger"
    /\ triggered' = Append(triggered, function_invoke)
    /\ IF world.scheduler = "trigger_raises" THEN Exit("trigger_func", 0) ELSE ExitOk
    /\ UNCHANGED <<migrest, data, overwritten>>

NextMigrate ==
    \/ mig_read
    \/ mig_check
    \/ mig_scheduler
    \/ mig_trigger

SpecMigrate == InitMigrate /\ [][NextMigrate]_vars

----------------------------------------------------------------------------
(* Vocabulary of the properties *)

Done == pc \in {"done", "exit"}
ServerTypes == {Lower(ComputeServers[i]) : i \in DOMAIN ComputeServers}
UnknownActions == {a \in Actions : ~Recognized(ActionType(a))}
Groups == Range(lambda_actions) \cup Range(github_actions) \cup Range(ow_actions)
          \cup Range(gcp_actions)
WaitPcs == {"aws_wait_update", "aws_wait_create"}
GroupOf(g) ==
    CASE g = "lambda" -> lambda_actions
      [] g = "github" -> github_actions
      [] g = "ow" -> ow_actions
      [] OTHER -> gcp_actions
TypesOf(g) ==
    CASE g = "lambda" -> {"lambda", "aws_lambda", "aws"}
      [] g = "github" -> {"githubactions", "github_actions", "github"}
      [] g = "ow" -> {"openwhisk", "open_whisk", "ow"}
      [] OTHER -> {"cloudfunctions", "cloud_functions", "gcp", "gcf", "googlecloud"}
PcsOf(g) ==
    CASE g = "lambda" -> {"aws_probe", "aws_update_code", "aws_wait_update", "aws_update_config",
                          "aws_create", "aws_wait_create", "aws_create_config"}
      [] g = "github" -> {"gh_repo", "gh_secrets", "gh_get", "gh_update", "gh_create"}
      [] g = "ow" -> {"ow_probe", "ow_cmd"}
      [] OTHER -> {"gcp_probe", "gcp_update", "gcp_create"}
PerActionCauses == {"rejected", "conflict", "failed", "timeout"}
\* a mandatory credential of a platform the workflow uses is not set
MandatoryMissing ==
    \/ (\E t \in ServerTypes : IsLambdaType(t)) /\ ~({"AWS_ACCESSKEY", "AWS_SECRETKEY"} \subseteq env)
    \/ (\E t \in ServerTypes : IsGithubType(t)) /\ "GH_PAT" \notin env
AllLambda == ServerTypes # {} /\ \A t \in ServerTypes : IsLambdaType(t)
OptionalSlots == Slots \ {"My_GitHub_Account_TOKEN", "My_Lambda_Account_ACCESS_KEY",
                          "My_Lambda_Account_SECRET_KEY"}
\* the positions of deploy_to_aws between the probe of an action and its end
AwsPcs == {"aws_update_code", "aws_wait_update", "aws_update_config", "aws_create",
           "aws_wait_create", "aws_create_config"}
\* the environment variable that fills field f of a server of (lower-cased) type t
\* ("" when the field is no credential of that platform)
FieldVar(t, f) ==
    CASE IsLambdaType(t) /\ f = "AccessKey" -> "AWS_ACCESSKEY"
      [] IsLambdaType(t) /\ f = "SecretKey" -> "AWS_SECRETKEY"
      [] IsGithubType(t) /\ f = "Token" -> "GH_PAT"
      [] IsOwType(t) /\ f = "API.key" -> "OW_APIKEY"
      [] IsGcpType(t) /\ f = "SecretKey" -> "GCP_SECRETKEY"
      [] OTHER -> ""
\* the environment variable that fills field f of a data store
StoreVar(f) == IF f = "AccessKey" THEN "MINIO_ACCESSKEY" ELSE "MINIO_SECRETKEY"

----------------------------------------------------------------------------
(* C1 -- Lambda, OpenWhisk, Cloud Functions: within one reconciliation of an
   action, a not-found probe is followed by a create call and never by an update
   call, and a found probe is followed by an update call and never by a create
   call, whatever the later platform calls answer. *)
C1_CreateXorUpdate ==
    (IsLambdaType(faas_type) \/ IsOwType(faas_type) \/ IsGcpType(faas_type)) =>
        /\ probe = "notfound" => "update" \notin issued
        /\ probe = "found" => "create" \notin issued
        /\ (probe = "notfound" /\ pc \notin {"aws_create", "ow_cmd", "gcp_create"})
              => "create" \in issued
        /\ (probe = "found" /\ pc \notin {"aws_update_code", "ow_cmd", "gcp_update"})
              => "update" \in issued

(* C2 -- when the run ends because one action was rejected by its platform, was
   reported failed or exhausted its wait, every other action of a recognized
   platform has been reconciled to its own terminal state. *)
C2_NoSiblingBlocked ==
    (pc = "exit" /\ failed # 0 /\ cause \in PerActionCauses) =>
        \A a \in Actions \ {failed} : Recognized(ActionType(a)) => result[a] = "deployed"

(* C3 -- a wait phase never issues more than max_attempts status polls; while the
   polls answer pending or raise the phase goes on until exactly max_attempts polls
   were issued, and then the action ends timed out. *)
C3_WaitBounded ==
    /\ polls <= max_attempts
    /\ pc \in WaitPcs => (attempt = polls /\ polls < max_attempts)
    /\ cause = "timeout" =>
          (pc = "exit" /\ exitCode = 1 /\ polls = max_attempts /\ lastPoll \in {"pending", "raise"})
    /\ (polls = max_attempts /\ lastPoll \in {"pending", "raise"}) =>
          (pc = "exit" /\ cause = "timeout")

\* the wait after update_function_code was exhausted
C3_Witness ==
    /\ pc = "exit" /\ cause = "timeout" /\ polls = max_attempts
    /\ issued = {"update"}

(* C4 -- once the run of a workflow that has actions is over, the exit status is
   non-zero if and only if some action did not end deployed and active. *)
C4_ExitIffNotAllActive ==
    (Done /\ Actions # {}) => ((exitCode # 0) <=> (\E a \in Actions : result[a] # "deployed"))

(* C5 -- an action whose server has an unrecognized FaaSType is in no platform
   group and no platform call is issued for it; the unrecognized type only adds a
   warning and the loop over the platforms goes on. *)
C5_UnknownSkipped ==
    /\ \A a \in UnknownActions :
          /\ a \notin Groups
          /\ a \notin Range(queue)
          /\ nprobes[a] = 0
          /\ result[a] = "none"
    /\ (faas_type # "" /\ ~Recognized(faas_type)) =>
          (pc \in {"dispatch", "done"} /\ exitCode \in {-1, 0} /\ faas_type \in warned)

\* the unknown type was warned about first, the recognized platform deployed its action after
C5_Witness ==
    /\ pc = "done"
    /\ UnknownActions # {}
    /\ warned # {}
    /\ Recognized(faas_type)
    /\ \E a \in Actions : result[a] = "deployed"

(* C6 -- if validate_json answers false or raises, or check_dag raises, no
   platform call is issued and the run does not exit with status 0. *)
C6_ValidationGate ==
    (validate_json_result \in {"false", "raise"} \/ cause = "validation") =>
        (called = {} /\ ~secretSet /\ exitCode # 0)

(* C7 -- if no compute server has a recognized FaaSType, no platform call is
   issued and the run does not exit with status 0. *)
C7_NoRecognizedTypeAborts ==
    (\A t \in ServerTypes : ~Recognized(t)) => (called = {} /\ exitCode # 0)

(* C8 -- if a mandatory credential of a platform used by the workflow is not set,
   no platform has received a call and no secret has been set, at any moment of the
   run. *)
C8_MissingCredentialBeforeCalls ==
    MandatoryMissing => (called = {} /\ ~secretSet)

(* C9 -- a workflow whose servers are all Lambda-style, with the AWS keys set,
   resolves its credentials without error even when GH_PAT is not set. *)
C9_LambdaResolvesWithoutToken ==
    (AllLambda /\ {"AWS_ACCESSKEY", "AWS_SECRETKEY", "AWS_ARN"} \subseteq env) =>
        cause # "GH_PAT"

(* C10 -- every optional slot whose environment variable is not set is the empty
   string in the resolved table. *)
C10_OptionalEmpty ==
    pc = "payload_done" =>
        \A s \in OptionalSlots : SlotVar(s) \notin env => payload[s] = ""

(* C11 -- after create_secret_payload, no credential field of a server of a type
   the router accepts, and no credential field of a data store, still holds its
   placeholder when the environment variable of that credential is set. *)
C11_NoPlaceholderLeft ==
    pc = "payload_done" =>
        /\ \A i \in DOMAIN server_config : \A f \in Fields :
              FieldVar(ActionType(i), f) \in env =>
                  server_config[i][f] # Placeholder(ServerKey(i), f)
        /\ \A k \in DOMAIN store_config : \A f \in StoreFields :
              StoreVar(f) \in env => store_config[k][f] # Placeholder(k, f)

(* C12 -- create_secret_payload applied to the payload a first call returned, in
   the same environment, returns that payload again: the credentials table and
   every field of every server and data store are what the first call left. *)
C12_Idempotent ==
    [][(pc = "payload_done" /\ pc' = "payload_twice") =>
          (payload' = payload /\ server_config' = server_config /\ store_config' = store_config)]_vars

\* the second call ran on a payload with a replaced field and a placeholder left
C12_Witness ==
    /\ pc = "payload_twice"
    /\ \E i \in DOMAIN server_config : \E f \in Fields :
          server_config[i][f] = Str(FieldVar(ActionType(i), f))
    /\ \E k \in DOMAIN store_config : store_config[k]["AccessKey"] = Placeholder(k, "AccessKey")

(* C13 -- a credential field that holds a value other than a placeholder keeps
   that value through credential resolution, in create_secret_payload and in
   _setup_credentials, whether or not the environment has a value for it. *)
C13_LiteralPassesThrough ==
    [][/\ \A i \in DOMAIN server_config : \A f \in Fields :
            server_config[i][f] \notin {Absent, Placeholder(ServerKey(i), f), Str("GCP_SECRET_KEY")}
                => server_config'[i][f] = server_config[i][f]
       /\ \A k \in DOMAIN store_config : \A f \in StoreFields :
            store_config[k][f] \notin {Absent, Placeholder(k, f)}
                => store_config'[k][f] = store_config[k][f]]_vars

(* C14 -- create_secret_payload leaves the workflow_data it was given as it was:
   every field of every server and data store has after the call the value it had
   before it. *)
C14_InputUnchanged ==
    [][pc = "payload" => (server_config' = server_config /\ store_config' = store_config)]_vars

(* C15 -- no resolved secret is ever in a file on disk: the key file of
   deploy_to_gcp never holds the service-account key taken from GCP_SECRETKEY
   (the value of a set variable is denoted by its name). *)
C15_NoSecretOnDisk ==
    keyFile => service_account_key # Str("GCP_SECRETKEY")

(* C16 -- every create_function and update_function_configuration call carries a
   memory within 128..10240 and a timeout within 1..900; the configuration call
   carries the floor for a request below it, the ceiling for a request above it and
   the request itself otherwise; a warning is printed exactly for the limits that
   were out of range. *)
C16_LimitsClamped ==
    /\ sent.op # "none" => (sent.MemorySize \in 128..10240 /\ sent.Timeout \in 1..900)
    /\ pc \in AwsPcs =>
          LET m == max_memory_mb(cur)
              t == max_runtime_seconds(cur)
          IN  /\ "MaxMemory" \in clampWarned <=> (m < 128 \/ m > 10240)
              /\ "MaxRuntime" \in clampWarned <=> (t < 1 \/ t > 900)
              /\ sent.op = "config" =>
                    /\ m < 128 => sent.MemorySize = 128
                    /\ m > 10240 => sent.MemorySize = 10240
                    /\ m \in 128..10240 => sent.MemorySize = m
                    /\ t < 1 => sent.Timeout = 1
                    /\ t > 900 => sent.Timeout = 900
                    /\ t \in 1..900 => sent.Timeout = t

\* a request of 50 MB was deployed with 128 MB, after a warning
C16_Witness ==
    /\ pc = "done"
    /\ action_data[1].MaxMemory = {50}
    /\ result[1] = "deployed"
    /\ sent.op = "config" /\ sent.MemorySize = 128
    /\ "MaxMemory" \in clampWarned

(* C17 -- update_function_configuration is about to be issued only when the code
   update (update path) or the create call (create path) was issued and the last
   status poll since then reported the function settled, resp. active: never after
   a failed poll, never after the wait was exhausted. *)
C17_ConfigAfterSettled ==
    /\ pc = "aws_update_config" => ("update" \in issued /\ polls >= 1 /\ lastPoll = "settled")
    /\ pc = "aws_create_config" => ("create" \in issued /\ polls >= 1 /\ lastPoll = "active")
    /\ cause \in {"failed", "timeout"} => ("config" \in issued => issued = {"update", "config", "create"})

\* the code update settled after polls that did not
C17_Witness ==
    /\ pc = "aws_update_config"
    /\ issued = {"update"}
    /\ polls > 1
    /\ lastPoll = "settled"

(* C18 -- an action that went through the update path is reported deployed only
   when a status poll made after the configuration update reported it settled. *)
C18_TwoWaits ==
    (IsLambdaType(faas_type) /\ pc \in {"aws_probe", "dispatch", "done"}
        /\ issued = {"update", "config"}) => lastPoll = "settled"

(* C19 -- a status poll that reports failed ends the action at once: the run is at
   its exit with the failed outcome, the poll counted no attempt and no sleep, no
   poll follows it and the action is not configured afterwards. *)
C19_FailedIsImmediate ==
    lastPoll = "failed" =>
        /\ pc = "exit" /\ exitCode = 1 /\ cause = "failed"
        /\ failed = cur /\ result[cur] = "none"
        /\ attempt = polls - 1
        /\ "config" \in issued => issued = {"update", "config", "create"}

\* the function reported Failed after create_function and polls that were pending
C19_Witness ==
    /\ lastPoll = "failed"
    /\ polls > 1
    /\ issued = {"create"}
    /\ pc = "exit"

(* C20 -- an action is given a failed outcome for a probe error only after its
   existence probe was issued at least three times. *)
C20_ProbeRetried ==
    (pc = "exit" /\ cause = "probe_error") => nprobes[failed] >= 3

(* C21 -- a create that is rejected with a conflict after a not-found probe does not
   end the run: the reconciliation goes on to the update path, so no run exits on
   the conflict. *)
C21_ConflictGoesToUpdate ==
    ~(pc = "exit" /\ cause = "conflict" /\ probe = "notfound" /\ "create" \in issued)

(* C22 -- every action is reconciled at most once in a run: no action is probed
   twice, also when the servers spell one platform in two accepted ways. *)
C22_ReconciledOnce ==
    \A a \in Actions : nprobes[a] <= 1

(* C23 -- two distinct actions of one platform that were both deployed were deployed
   under two distinct identifiers, also on Cloud Functions where the name is
   lower-cased and '_' is replaced by '-'. *)
C23_DistinctIdentifiers ==
    \A a, b \in Actions :
        (/\ a # b
         /\ result[a] = "deployed" /\ result[b] = "deployed"
         /\ \E T \in {LambdaTypes, GithubTypes, OwTypes, GcpTypes} :
                ActionType(a) \in T /\ ActionType(b) \in T)
        => prefixed_func_name(a) # prefixed_func_name(b)

(* C24 -- the router partitions the actions: when a deploy routine is about to filter
   the actions, an action of a recognized FaaSType is in exactly one of the four
   groups and an action of another type is in none; the actions a deploy routine
   works on are those whose own server is of its platform. *)
C24_RouterPartitions ==
    /\ pc \in {"aws_start", "gh_start", "ow_start", "gcp_start"} =>
           \A a \in Actions :
               Cardinality({g \in {"lambda", "github", "ow", "gcp"} : a \in Range(GroupOf(g))})
                   = IF Recognized(ActionType(a)) THEN 1 ELSE 0
    /\ \A g \in {"lambda", "github", "ow", "gcp"} :
           pc \in PcsOf(g) => \A a \in Range(queue) : ActionType(a) \in TypesOf(g)

C24_Witness ==
    /\ pc = "gh_get"
    /\ Len(queue) = 1
    /\ lambda_actions # <<>>
    /\ result[lambda_actions[1]] = "deployed"

(* C25 -- the create scenario: a Lambda action with MaxMemory 2048 and MaxRuntime 60
   whose probe answers not found, whose create succeeds and whose status polls answer
   pending, pending, active has by then received one create call with memory 2048 and
   timeout 60, three polls, one probe and no code update; when the routine is over
   the action is deployed with these limits. *)
C25_Scenario ==
    /\ Actions = {1}
    /\ action_data[1] = [MaxMemory |-> {2048}, MaxRuntime |-> {60}]
    /\ probe = "notfound"

C25_CreateScenario ==
    /\ (C25_Scenario /\ pc = "aws_create_config"
            /\ pollLog = <<"pending", "pending", "active">>)
        => /\ issued = {"create"}
           /\ sent = [op |-> "create", action |-> 1, MemorySize |-> 2048, Timeout |-> 60]
           /\ polls = 3
           /\ nprobes[1] = 1
           /\ exitCode = -1
    /\ (C25_Scenario /\ pc \in {"dispatch", "done"})
        => /\ result[1] = "deployed"
           /\ issued = {"create", "config"}
           /\ sent = [op |-> "config", action |-> 1, MemorySize |-> 2048, Timeout |-> 60]
           /\ nprobes[1] = 1
           /\ exitCode \in {-1, 0}

C25_Witness ==
    /\ C25_Scenario
    /\ pc = "aws_create_config"
    /\ pollLog = <<"pending", "pending", "active">>

(* C26 -- on GitHub Actions the secret payload is stored in the repository before any
   workflow file is read, created or updated, and when storing it fails no workflow
   file is written in the run. *)
C26_SecretBeforeWorkflows ==
    /\ pc \in {"gh_get", "gh_update", "gh_create"} => secretSet
    /\ \A a \in Actions :
           (IsGithubType(ActionType(a)) /\ (nprobes[a] > 0 \/ result[a] = "deployed")) => secretSet
    /\ (pc = "exit" /\ ~secretSet) =>
           \A a \in Actions : IsGithubType(ActionType(a)) => result[a] = "none"

C26_Witness ==
    /\ secretSet
    /\ IsGithubType(faas_type)
    /\ issued = {"create"}
    /\ \E a \in Actions : IsGithubType(ActionType(a)) /\ result[a] = "deployed"

(* C27 -- a user interrupt during a polling wait ends the polling and the action's
   outcome is recorded as timed out with the detail "cancelled". *)
C27_CancelledIsTimedOut ==
    (pc = "exit" /\ lastPoll = "interrupt") => cause = "cancelled"

(* C28 -- a status poll that raises is not terminal: it uses up exactly one of the
   max_attempts attempts; while attempts are left the wait goes on in the same phase
   with nothing failed, and the action fails for it only when that was the last
   attempt, as a timeout. *)
C28_RaisedPollIsOneAttempt ==
    [][(pc \in WaitPcs /\ polls' = polls + 1 /\ lastPoll' = "raise")
        => /\ attempt' = attempt + 1
           /\ IF attempt' < max_attempts
              THEN pc' = pc /\ exitCode' = exitCode /\ failed' = failed /\ result' = result
              ELSE pc' = "exit" /\ cause' = "timeout"]_vars

\* a poll raised and a later poll completed the wait
C28_Witness ==
    /\ pc = "aws_create_config"
    /\ pollLog = <<"pending", "raise", "active">>
    /\ attempt = 2

(* C29 -- the memory and the timeout of a function are chosen one independently of the
   other: the action's own value if it gives one, else the value of its own compute
   server, else 1024 MB / 900 s; the configuration call carries the chosen values
   whenever they are within Lambda's limits. *)
C29_LimitPrecedence ==
    sent.op = "config" =>
        LET a == sent.action
            am == action_data[a].MaxMemory
            sm == server_limits[FaaSServer(a)].MaxMemory
            ar == action_data[a].MaxRuntime
            sr == server_limits[FaaSServer(a)].MaxRuntime
            memory == IF am # {} THEN The(am) ELSE IF sm # {} THEN The(sm) ELSE 1024
            runtime == IF ar # {} THEN The(ar) ELSE IF sr # {} THEN The(sr) ELSE 900
        IN  /\ memory \in 128..10240 => sent.MemorySize = memory
            /\ runtime \in 1..900 => sent.Timeout = runtime

\* the memory comes from the action although the server gives one too, the timeout
\* from the server
C29_Witness ==
    /\ sent = [op |-> "config", action |-> 1, MemorySize |-> 2048, Timeout |-> 120]
    /\ action_data[1] = [MaxMemory |-> {2048}, MaxRuntime |-> {}]
    /\ server_limits[1] = [MaxMemory |-> {512}, MaxRuntime |-> {120}]
    /\ result[1] = "deployed"

(* C30 -- while a Lambda or Cloud Functions action is being probed, created or
   updated, the region of the calls is the Region of the action's own compute
   server. *)
C30_OwnRegion ==
    \A g \in {"lambda", "gcp"} : pc \in PcsOf(g) => region = Region(FaaSServer(cur))

(* C31 -- GitHub Actions: within one reconciliation of an action, update_file is
   called only after the read of the workflow file found it, create_file only after
   the read reported not found, and a read that failed otherwise ends the run with
   no write for that action. *)
C31_GithubWritesFollowRead ==
    IsGithubType(faas_type) =>
        /\ (pc = "gh_update" \/ "update" \in issued) => probe = "found"
        /\ (pc = "gh_create" \/ "create" \in issued) => probe = "notfound"
        /\ (pc = "exit" /\ cause = "probe_error") => issued = {}

(* C32 -- the key file of deploy_to_gcp exists only while deploy_to_gcp is working
   on its actions: once the routine is left, by its return or by sys.exit after a
   failed client setup, a missing token or a failed action, no key file is on disk. *)
C32_KeyFileRemoved ==
    keyFile => pc \in {"gcp_probe", "gcp_update", "gcp_create"}

\* a key file was written, then an action was rejected and the run ended
C32_Witness ==
    /\ pc = "exit"
    /\ IsGcpType(faas_type)
    /\ cause \in {"rejected", "conflict", "probe_error"}
    /\ Truthy(service_account_key)
    /\ ~keyFile

----------------------------------------------------------------------------
(* sync_secrets.py *)

Requested(p) == IF p = "aws" THEN args.sync_to_aws ELSE args.sync_to_gcp
LibraryOf(p) == IF p = "aws" THEN "boto3" ELSE "requests"
AnyFailed(p) == \E s \in Range(secrets) : synced[<<p, s>>].outcome = "failed"
LoopOf(p) ==
    IF p = "aws" THEN {"s_aws_loop", "s_aws_put", "s_aws_create"}
    ELSE {"s_gcp_loop", "s_gcp_add", "s_gcp_create"}
SetupCauses == {"no_provider", "AWS_REGION", "GCP_PROJECT_ID", "GCP_SecretKey", "gcp_auth"}

\* C33 as stated: the process exits non-zero exactly when a requested provider had a
\* secret that was attempted and failed
C33_ExitIffSecretFailed ==
    pc = "exit" => (exitCode # 0 <=> \E p \in Providers : Requested(p) /\ AnyFailed(p))

\* C33: a failed secret does not stop the loop, a skipped secret gets no call and is
\* no failure, a provider's flag is false exactly when one of its attempted secrets
\* failed, and the process exits zero only when every requested provider had its
\* library and no failed secret; a non-zero exit is a failed setup step of main (no
\* provider, a missing setting, the GCP authentication) or a provider that returned
\* failure, which is a failed secret or a client library that is not installed
C33_FailuresAreCounted ==
    /\ \A p \in Providers :
          /\ pc \in LoopOf(p) => (success <=> ~AnyFailed(p))
          /\ (pc \in LoopOf(p) /\ queue = <<>>) =>
                 \A s \in Range(secrets) : synced[<<p, s>>].outcome # "none"
          /\ \A s \in Range(secrets) :
                 (s \notin env \/ s \in world.masked) =>
                     /\ synced[<<p, s>>].calls = {}
                     /\ synced[<<p, s>>].outcome \in {"none", "skipped"}
    /\ (pc = "exit" /\ exitCode = 0 /\ secrets # <<>>) =>
          \A p \in Providers : Requested(p) =>
             /\ LibraryOf(p) \in world.installed
             /\ \A s \in Range(secrets) : synced[<<p, s>>].outcome \in {"ok", "skipped"}
    /\ (pc = "exit" /\ exitCode # 0) =>
          \/ cause \in SetupCauses
          \/ /\ cause = "sync_failed"
             /\ \E p \in Providers :
                   Requested(p) /\ (AnyFailed(p) \/ LibraryOf(p) \notin world.installed)

\* the first secret failed on AWS, the second was still synced, and the exit is 1
C33_Witness ==
    /\ pc = "exit"
    /\ exitCode = 1
    /\ cause = "sync_failed"
    /\ args.server = <<"OW", "GH_PAT">>
    /\ synced[<<"aws", "OW_APIkey">>].outcome = "failed"
    /\ synced[<<"aws", "GH_PAT">>].outcome = "ok"

\* C34: each secret is created or updated according to its probe: on AWS
\* put_secret_value only after describe_secret found the secret and create_secret only
\* after it reported ResourceNotFoundException; on GCP a 200 is followed by addVersion
\* and no create, a 404 by a create and by addVersion only behind that create, and
\* any other answer by no further call and a failure
C34_CreateOrUpdate ==
    \A s \in Range(secrets) :
       LET a == synced[<<"aws", s>>]
           g == synced[<<"gcp", s>>] IN
       /\ "put_secret_value" \in a.calls => a.probe = "found"
       /\ "create_secret" \in a.calls => a.probe = "notfound"
       /\ g.probe = "200" => "create" \notin g.calls
       /\ "create" \in g.calls => g.probe = "404"
       /\ ("addVersion" \in g.calls /\ g.probe # "200") => "create" \in g.calls
       /\ g.probe \in {"other", "raise"} => (g.calls = {"get"} /\ g.outcome = "failed")

----------------------------------------------------------------------------
(* deploy_terraform.py *)

Runs == DOMAIN ran
ChangingCommands == {"apply", "destroy"}
Approved == args.auto_approve \/ LowerAnswer(world.response) \in {"yes", "y"}
Declined == world.response \notin {"none", "EOF"} /\ LowerAnswer(world.response) \notin {"yes", "y"}

\* C35: terraform apply runs only without --destroy and --plan-only, directly after a
\* plan that succeeded, with .terraform present (an init that was needed has run and
\* succeeded) and with the approval of --auto-approve or of an answer yes or y; a run
\* in which init, plan, apply or destroy failed ends with a non-zero exit status, and
\* a declined approval ends with exit status zero and no apply
C35_ApplyNeedsPlanAndApproval ==
    /\ \A i \in Runs :
          ran[i].command = "apply" =>
             /\ ~args.destroy
             /\ ~args.plan_only
             /\ i > 1
             /\ ran[i - 1].command = "plan"
             /\ ran[i - 1].ok
             /\ \A j \in 1..(i - 1) : ran[j].ok
             /\ world.dot_terraform
             /\ Approved
    /\ pc \in {"tf_apply", "tf_input"} => world.dot_terraform
    /\ (pc = "exit" /\ \E i \in Runs : ran[i].command # "output" /\ ~ran[i].ok) => exitCode # 0
    /\ (pc \in {"tf_op", "tf_input", "tf_apply"}) => \A i \in Runs : ran[i].ok
    /\ Declined => (pc = "exit" /\ exitCode = 0 /\ \A i \in Runs : ran[i].command # "apply")

\* init was needed and succeeded, the plan succeeded, the answer Yes approved, the apply ran
C35_Witness ==
    /\ pc = "exit"
    /\ exitCode = 0
    /\ world.response = "Yes"
    /\ Len(ran) = 4
    /\ ran[1].command = "init"
    /\ ran[2].command = "plan"
    /\ ran[3].command = "apply"
    /\ ran[3].ok

\* C36: with --auto-approve every apply and every destroy is run with -auto-approve
C36_ChangesAreAutoApproved ==
    args.auto_approve =>
        \A i \in Runs : ran[i].command \in ChangingCommands => ran[i].flag

----------------------------------------------------------------------------
(* migration_adapter.py *)

\* the function the script is asked to invoke
Wanted == IF FalsyName(args.function_name) THEN world.FunctionInvoke ELSE args.function_name

\* C37: trigger_func is called at most once, for the --function-name given or else
\* the FunctionInvoke of the file, and only when that name is a key of ActionList;
\* the exit status is zero exactly when the file was read, the name is determined
\* and a key of ActionList, and neither the scheduler nor the trigger raised; a run
\* that ends without a trigger ends with a non-zero exit status
C37_TriggerOnlyExistingFunction ==
    /\ Len(triggered) <= 1
    /\ \A i \in DOMAIN triggered :
          /\ triggered[i] = Wanted
          /\ world.workflow_file = "ok"
          /\ world.ActionList
          /\ triggered[i] \in ActionKeys
    /\ (pc = "exit" /\ triggered = <<>>) => exitCode # 0
    /\ pc = "exit" =>
          (exitCode = 0 <=>
             /\ world.workflow_file = "ok"
             /\ Wanted \in ActionKeys
             /\ world.ActionList
             /\ world.scheduler = "ok"
             /\ triggered = <<Wanted>>)

\* --function-name names no action of the file: exit 1 without a trigger
C37_Witness ==
    /\ pc = "exit"
    /\ exitCode = 1
    /\ cause = "not_in_ActionList"
    /\ args.function_name = "ghost"
    /\ world.FunctionInvoke = "plot"
    /\ triggered = <<>>

\* C38: once the adapter is constructed, every key of data other than ComputeServers,
\* DataStores and _workflow_file is in overwritten with the value it has in data,
\* and none of the three keys is in overwritten
C38_OverwrittenFollowsData ==
    pc = "adapter_ready" =>
        /\ \A k \in DOMAIN data \ ExcludedKeys :
              k \in DOMAIN overwritten /\ overwritten[k] = data[k]
        /\ DOMAIN overwritten \cap ExcludedKeys = {}

\* ComputeServers was assigned after the construction and a field was reassigned
C38_Witness ==
    /\ pc = "adapter_ready"
    /\ "ComputeServers" \in DOMAIN data
    /\ data["ComputeServers"] = "v2"
    /\ "WorkflowName" \in DOMAIN data
    /\ data["WorkflowName"] = "v2"
    /\ overwritten["WorkflowName"] = "v2"
    /\ overwritten["FunctionInvoke"] = "None"

====
